---- MODULE Spec2Model ----
(***************************************************************************)
(* Build cache, replay engine, debugger session and diagnosis loop of      *)
(* PatchAgent (builder/ossfuzz.py, builder/builder.py, parser/__init__.py, *)
(* agent/clike/proxy/debugger.py, agent/clike/proxy/default.py).           *)
(*                                                                         *)
(* Spec      : one builder object, build(patch) / replay(poc, patch) calls *)
(*             made one after the other on one workspace directory.        *)
(* ReplaySpec: the reproduction step of _replay on every pair of captured   *)
(*             output streams.                                             *)
(* DiagSpec  : one run of the debugger tool (diagnose) with its session;   *)
(*             DiagLiveSpec adds the fairness of its steps.                *)
(* SessionSpec: one DebuggerSession object under any sequence of calls.    *)
(* RewriteSpec: run_cmd_with_path_fix on every command of a bounded shape. *)
(* PatchSpec : check_patch / format_patch on the scratch checkout, and the *)
(*             two patch runs of _build.                                   *)
(* ConcSpec  : two threads calling build on one builder object.            *)
(* ExtractSpec: _extract_repro_command on the lines of a captured log.     *)
(* ResolveSpec: the program and argument resolution of the debugger tool.  *)
(***************************************************************************)
EXTENDS Integers, Sequences, FiniteSets, TLC

\* ---------------------------------------------------------------- bounds
\* number of top-level calls (build, replay, re-construction) in one behaviour
MaxOps == 2

\* ------------------------------------------------------------- constants
Callers == {"t1"}

\* Sanitizer kinds (the keys of __sanitizer_report_classes_map__)
Sanitizer ==
    {"AddressSanitizer", "LeakAddressSanitizer", "UndefinedBehaviorSanitizer",
     "MemorySanitizer", "JazzerSanitizer", "JavaNativeSanitizer", "LibFuzzer",
     "ThreadSanitizer"}

\* OSSFuzzBuilder.SANITIZER_MAP: sanitizer kind -> build-system sanitizer flag
SANITIZER_MAP ==
    [s \in {"AddressSanitizer", "UndefinedBehaviorSanitizer", "LeakAddressSanitizer",
            "MemorySanitizer", "JazzerSanitizer"} |->
        CASE s = "AddressSanitizer" -> "address"
          [] s = "UndefinedBehaviorSanitizer" -> "undefined"
          [] s = "LeakAddressSanitizer" -> "address"
          [] s = "MemorySanitizer" -> "memory"
          [] s = "JazzerSanitizer" -> "address"]

\* patch texts a caller passes ("" is the unpatched baseline)
Patches == {"", "a"}

\* hashlib.md5(patch.encode()).hexdigest() on the patch texts of the model
md5(patch) ==
    CASE patch = "" -> "d41d8cd98f00b204e9800998ecf8427e"
      [] patch = "a" -> "0cc175b9c0f1b6a831c399e269772661"
      [] patch = "b" -> "92eb5fffee6ae2fec3ad71c777531578"

\* a mutant of hash_patch: the sanitizer flag is left out of the key
hash_patch_no_flag(sanitizer, patch) == md5(patch)

\* OSSFuzzBuilder.hash_patch (defined on DOMAIN SANITIZER_MAP, KeyError elsewhere)
hash_patch(sanitizer, patch) == md5(patch) \o "-" \o SANITIZER_MAP[sanitizer]

\* names of the key-scoped workspace directories  self.workspace / hash_patch(..)
Workspaces == {hash_patch(s, p) : s \in DOMAIN SANITIZER_MAP, p \in Patches}

\* OSSFuzzBuilder.build_finish_indicator: the marker path  <workspace>/.build
build_finish_indicator(sanitizer, patch) == <<hash_patch(sanitizer, patch), ".build">>

\* the configured sanitizer lists (constructor argument `sanitizers`)
SanitizerConfigs ==
    { <<"AddressSanitizer">>,
      <<"AddressSanitizer", "UndefinedBehaviorSanitizer">>,
      <<"AddressSanitizer", "LeakAddressSanitizer">>,
      <<"ThreadSanitizer">> }

\* results of the stages of one uncached build, in the order the code runs them
Stages == <<"source", "tooling", "patch1", "patch2", "image", "build", "check">>

StageSet == {Stages[i] : i \in 1..Len(Stages)}

\* an empty (just created, or absent) workspace directory
NoDir == [exists |-> FALSE, stages |-> {}, marker |-> <<>>]

EmptyDir == [exists |-> TRUE, stages |-> {}, marker |-> <<>>]

VARIABLES
    sanitizers,     \* self.sanitizers
    language,       \* self.language: "unread" until project.yaml is first read
    docker_registry,\* self.docker_registry is set (TRUE) or None (FALSE)
    immutable,      \* workspace/immutable: [source, tooling] each absent/partial/full
    ws,             \* key-scoped workspace directories: name -> [exists, stages, marker]
    docker,         \* whether the mirror image <registry>/<project>:latest is local
    call,           \* per caller: the call in progress
    nOps,           \* top-level calls started so far (also the file-system clock)
    dbg,            \* state of the debugger tool run (DiagSpec)
    repo            \* the scratch checkout workspace/git/<name> (PatchSpec)

vars == <<sanitizers, language, docker_registry, immutable, ws, docker, call,
          nOps, dbg, repo>>

cfgVars == <<sanitizers, docker_registry, repo>>

\* a source tree, as far as the patch tools see it: the patches applied to the
\* original source, and whether reject/backup files lie in it
Pristine == [applied |-> {}, junk |-> FALSE]

\* no scratch checkout on disk, no Repo object in the builder
NoRepo == [dir |-> FALSE, cached |-> FALSE, head |-> Pristine, tree |-> Pristine,
           op |-> [name |-> "new"], n |-> 0]

Pending == [kind |-> "pending"]

ReturnNone == [kind |-> "None"]

Raise(exc) == [kind |-> "raise", exc |-> exc]

Idle ==
    [pc |-> "idle", op |-> "none", patch |-> "", poc |-> TRUE, idx |-> 0,
     key |-> "", keys |-> <<>>, entryCached |-> FALSE, snap |-> NoDir,
     tries |-> 0, visited |-> <<>>, outcomes |-> <<>>, tried |-> <<>>,
     streams |-> <<>>, exits |-> <<>>, at |-> "",
     result |-> Pending]

\* a mutant of MarkerIsFile: the marker check never sees the marker
MarkerNeverFile(k) == FALSE

\* Path.is_file() on the completion marker of a workspace
MarkerIsFile(k) == ws[k].marker # <<>>

\* the sanitizer the loop of build()/replay() is at
CurSan(c) == sanitizers[call[c].idx]

\* an exception leaves the call: nothing later in the call runs (at: where it
\* was raised)
Raised(cr, exc) == [cr EXCEPT !.pc = "done", !.at = cr.pc, !.result = Raise(exc)]

\* _build returned normally: build() goes to the next sanitizer, _replay goes on
BuildReturned(cr) ==
    IF cr.op = "build"
    THEN IF cr.idx < Len(sanitizers)
         THEN [cr EXCEPT !.idx = @ + 1, !.pc = "b_entry"]
         ELSE [cr EXCEPT !.pc = "done", !.result = ReturnNone]
    ELSE [cr EXCEPT !.pc = "r_assert"]

\* OSSFuzzBuilder.build(patch): for sanitizer in self.sanitizers: self._build(..)
build(c, patch) ==
    /\ call[c].pc \in {"idle", "done"}
    /\ nOps < MaxOps
    /\ nOps' = nOps + 1
    /\ call' = [call EXCEPT ![c] = [Idle EXCEPT !.pc = "b_entry", !.op = "build",
                                                !.patch = patch, !.idx = 1]]
    /\ UNCHANGED <<cfgVars, language, immutable, ws, docker, dbg>>

\* a mutant of _build_entry: a caller waits at the marker check while another
\* call is between the marker check and the return of _build for the same key
_build_entry_locked(c) ==
    /\ call[c].pc = "b_entry"
    /\ \A d \in DOMAIN call \ {c} :
          ~(/\ call[d].pc \in {"b_reset", "b_immsrc", "b_cpsrc", "b_immtool", "b_cptool",
                                "b_patch1", "b_patch2", "i_entry", "i_pull", "i_tag",
                                "i_local", "b_build", "b_check", "b_marker"}
            /\ call[d].key = hash_patch(CurSan(c), call[c].patch))
    /\ LET san == CurSan(c)
           cr == call[c]
       IN  IF san \notin DOMAIN SANITIZER_MAP
           THEN call' = [call EXCEPT ![c] = Raised(cr, "KeyError")]
           ELSE LET k == hash_patch(san, cr.patch)
                    hit == ws[k].marker # <<>>
                    e == [cr EXCEPT !.key = k, !.keys = Append(@, k),
                                    !.entryCached = hit,
                                    !.snap = IF hit THEN ws[k] ELSE NoDir]
                IN  IF MarkerIsFile(k)
                    THEN call' = [call EXCEPT ![c] = BuildReturned(e)]
                    ELSE call' = [call EXCEPT ![c] = [e EXCEPT !.pc = "b_reset"]]
    /\ UNCHANGED <<cfgVars, language, immutable, ws, docker, nOps, dbg>>

\* _build lines 181-187: the marker check, and the early return when it is a file
\* (entryCached, snap and keys record what the call found, for the properties)
_build_entry(c) ==
    /\ call[c].pc = "b_entry"
    /\ LET san == CurSan(c)
           cr == call[c]
       IN  IF san \notin DOMAIN SANITIZER_MAP
           THEN call' = [call EXCEPT ![c] = Raised(cr, "KeyError")]
           ELSE LET k == hash_patch(san, cr.patch)
                    hit == ws[k].marker # <<>>
                    e == [cr EXCEPT !.key = k, !.keys = Append(@, k),
                                    !.entryCached = hit,
                                    !.snap = IF hit THEN ws[k] ELSE NoDir]
                IN  IF MarkerIsFile(k)
                    THEN call' = [call EXCEPT ![c] = BuildReturned(e)]
                    ELSE call' = [call EXCEPT ![c] = [e EXCEPT !.pc = "b_reset"]]
    /\ UNCHANGED <<cfgVars, language, immutable, ws, docker, nOps, dbg>>

\* a mutant of _build_reset: the old workspace is not removed (mkdir only)
_build_reset_keeps_old(c) ==
    /\ call[c].pc = "b_reset"
    /\ ws' = [ws EXCEPT ![call[c].key].exists = TRUE]
    /\ call' = [call EXCEPT ![c].pc = "b_immsrc"]
    /\ UNCHANGED <<cfgVars, language, immutable, docker, nOps, dbg>>

\* a mutant of _build_reset: the rmtree takes the workspace root, and with it
\* the directories of all keys
_build_reset_wipes_root(c) ==
    /\ call[c].pc = "b_reset"
    /\ ws' = [k \in DOMAIN ws |-> IF k = call[c].key THEN EmptyDir ELSE NoDir]
    /\ call' = [call EXCEPT ![c].pc = "b_immsrc"]
    /\ UNCHANGED <<cfgVars, language, immutable, docker, nOps, dbg>>

\* _build lines 189-190: shutil.rmtree(workspace); workspace.mkdir()
_build_reset(c) ==
    /\ call[c].pc = "b_reset"
    /\ ws' = [ws EXCEPT ![call[c].key] = EmptyDir]
    /\ call' = [call EXCEPT ![c].pc = "b_immsrc"]
    /\ UNCHANGED <<cfgVars, language, immutable, docker, nOps, dbg>>

\* a mutant of ImmutableCopy: the copy is taken again on every use
ImmutableCopy_every_time(c, which, next) ==
    \E ok \in BOOLEAN :
      IF ok
      THEN /\ immutable' = [immutable EXCEPT ![which] = "full"]
           /\ call' = [call EXCEPT ![c].pc = next]
      ELSE /\ \E left \in {"absent", "partial"} :
                immutable' = [immutable EXCEPT ![which] = left]
           /\ call' = [call EXCEPT ![c] = Raised(call[c], "CalledProcessError")]

\* a cached_property that materialises workspace/immutable/<name> on first use
\* (a cached value implies the directory is there): `which` is "source" or
\* "tooling"; on success the call goes on at pc `next`
ImmutableCopy(c, which, next) ==
    IF immutable[which] # "absent"
    THEN /\ call' = [call EXCEPT ![c].pc = next]
         /\ immutable' = immutable
    ELSE \E ok \in BOOLEAN :
           IF ok
           THEN /\ immutable' = [immutable EXCEPT ![which] = "full"]
                /\ call' = [call EXCEPT ![c].pc = next]
           ELSE /\ \E left \in {"absent", "partial"} :
                     immutable' = [immutable EXCEPT ![which] = left]
                /\ call' = [call EXCEPT ![c] = Raised(call[c], "CalledProcessError")]

\* Builder.source_path, evaluated for the argument of the cp in _build line 192
source_path(c) ==
    /\ call[c].pc = "b_immsrc"
    /\ ImmutableCopy(c, "source", "b_cpsrc")
    /\ UNCHANGED <<cfgVars, language, ws, docker, nOps, dbg>>

\* OSSFuzzBuilder.fuzz_tooling_path, evaluated in _build line 194 and _replay line 328
fuzz_tooling_path(c) ==
    /\ call[c].pc \in {"b_immtool", "r_immtool"}
    /\ ImmutableCopy(c, "tooling",
                     IF call[c].pc = "b_immtool" THEN "b_cptool" ELSE "r_reproduce")
    /\ UNCHANGED <<cfgVars, language, ws, docker, nOps, dbg>>

\* a mutant of BuildStage: the exit status of the subprocess is not looked at
BuildStage_status_ignored(c, stage, next, exc) ==
    \E ok \in BOOLEAN :
      /\ ws' = [ws EXCEPT ![call[c].key].stages = IF ok THEN @ \cup {stage} ELSE @]
      /\ call' = [call EXCEPT ![c].pc = next]

\* one subprocess of _build working in the workspace of the call: on exit 0 the
\* stage's result is in the workspace and the call goes on at `next`, otherwise
\* the exception `exc` leaves _build with the workspace as it is
BuildStage(c, stage, next, exc) ==
    \E ok \in BOOLEAN :
      IF ok
      THEN /\ ws' = [ws EXCEPT ![call[c].key].stages = @ \cup {stage}]
           /\ call' = [call EXCEPT ![c].pc = next]
      ELSE /\ ws' = ws
           /\ call' = [call EXCEPT ![c] = Raised(call[c], exc)]

\* _build line 192: subprocess.run(["cp", "-r", source_path, ..], check=True)
_build_copy_source(c) ==
    /\ call[c].pc = "b_cpsrc"
    /\ BuildStage(c, "source", "b_immtool", "CalledProcessError")
    /\ UNCHANGED <<cfgVars, language, immutable, docker, nOps, dbg>>

\* _build lines 194-198: cp -r of the tooling tree, then _inject_debug_flags
\* (which catches every exception itself)
_build_copy_tooling(c) ==
    /\ call[c].pc = "b_cptool"
    /\ BuildStage(c, "tooling", "b_patch1", "CalledProcessError")
    /\ UNCHANGED <<cfgVars, language, immutable, docker, nOps, dbg>>

\* _build line 200: safe_subprocess_run(["patch", "-p1"], ..), first pass
_build_patch1(c) ==
    /\ call[c].pc = "b_patch1"
    /\ BuildStage(c, "patch1", "b_patch2", "BuilderProcessError")
    /\ UNCHANGED <<cfgVars, language, immutable, docker, nOps, dbg>>

\* _build line 202: safe_subprocess_run(["patch", "-p1"], ..), second pass
_build_patch2(c) ==
    /\ call[c].pc = "b_patch2"
    /\ BuildStage(c, "patch2", "i_entry", "BuilderProcessError")
    /\ UNCHANGED <<cfgVars, language, immutable, docker, nOps, dbg>>

\* _build lines 206-217: infra/helper.py build_fuzzers --sanitizer <flag> --clean
_build_fuzzers(c) ==
    /\ call[c].pc = "b_build"
    /\ BuildStage(c, "build", "b_check", "BuilderProcessError")
    /\ UNCHANGED <<cfgVars, language, immutable, docker, nOps, dbg>>

\* a mutant of _build_check: a failed check_build is not noticed
_build_check_unchecked(c) ==
    /\ call[c].pc = "b_check"
    /\ \E ok \in BOOLEAN :
         ws' = [ws EXCEPT ![call[c].key].stages = IF ok THEN @ \cup {"check"} ELSE @]
    /\ call' = [call EXCEPT ![c].pc = "b_marker"]
    /\ UNCHANGED <<cfgVars, language, immutable, docker, nOps, dbg>>

\* _build lines 219-228: infra/helper.py check_build --sanitizer <flag>
_build_check(c) ==
    /\ call[c].pc = "b_check"
    /\ BuildStage(c, "check", "b_marker", "BuilderProcessError")
    /\ UNCHANGED <<cfgVars, language, immutable, docker, nOps, dbg>>

\* a mutant of _build_marker: _build returns without writing the marker
_build_marker_not_written(c) ==
    /\ call[c].pc = "b_marker"
    /\ ws' = ws
    /\ call' = [call EXCEPT ![c] = BuildReturned(call[c])]
    /\ UNCHANGED <<cfgVars, language, immutable, docker, nOps, dbg>>

\* _build line 230: build_finish_indicator(..).write_text(patch), then return
_build_marker(c) ==
    /\ call[c].pc = "b_marker"
    /\ ws' = [ws EXCEPT ![call[c].key].marker =
                 << [text |-> call[c].patch, mtime |-> nOps] >>]
    /\ call' = [call EXCEPT ![c] = BuildReturned(call[c])]
    /\ UNCHANGED <<cfgVars, language, immutable, docker, nOps, dbg>>

\* _build_image(tries = 3) / _build_image_locally(tries = 3)
ImageTries == 3

\* the image is there: _build_image returns and _build goes on with build_fuzzers
ImageAcquired(c) ==
    /\ ws' = [ws EXCEPT ![call[c].key].stages = @ \cup {"image"}]
    /\ call' = [call EXCEPT ![c].pc = "b_build", ![c].tries = 0]

\* _build_image lines 101-108 and 123: with a registry, docker image inspect
\* of the mirror image decides between re-tagging and pulling
_build_image(c) ==
    /\ call[c].pc = "i_entry"
    /\ call' = [call EXCEPT ![c].pc = IF ~docker_registry THEN "i_local"
                                      ELSE IF docker THEN "i_tag" ELSE "i_pull"]
    /\ UNCHANGED <<cfgVars, language, immutable, ws, docker, nOps, dbg>>

\* _build_image lines 109-114: docker pull; on failure fall back to the local build
_build_image_pull(c) ==
    /\ call[c].pc = "i_pull"
    /\ \E ok \in BOOLEAN :
         /\ docker' = ok
         /\ call' = [call EXCEPT ![c].pc = IF ok THEN "i_tag" ELSE "i_local"]
    /\ UNCHANGED <<cfgVars, language, immutable, ws, nOps, dbg>>

\* a mutant of _build_image_tag: a failed re-tag falls back to the local build
_build_image_tag_falls_back(c) ==
    /\ call[c].pc = "i_tag"
    /\ \E ok \in BOOLEAN :
         IF ok
         THEN ImageAcquired(c)
         ELSE /\ ws' = ws
              /\ call' = [call EXCEPT ![c].pc = "i_local"]
    /\ UNCHANGED <<cfgVars, language, immutable, docker, nOps, dbg>>

\* _build_image lines 116-121: docker tag mirror -> gcr.io/oss-fuzz/<project>
_build_image_tag(c) ==
    /\ call[c].pc = "i_tag"
    /\ \E ok \in BOOLEAN :
         IF ok
         THEN ImageAcquired(c)
         ELSE /\ ws' = ws
              /\ call' = [call EXCEPT ![c] = Raised(call[c], "DockerUnavailableError")]
    /\ UNCHANGED <<cfgVars, language, immutable, docker, nOps, dbg>>

\* a mutant of _build_image_locally: the loop runs one more time than `tries`
_build_image_locally_one_more(c) ==
    /\ call[c].pc = "i_local"
    /\ \E ok \in BOOLEAN :
         IF ok
         THEN ImageAcquired(c)
         ELSE /\ ws' = ws
              /\ call' = [call EXCEPT ![c] =
                            IF call[c].tries + 1 = ImageTries + 1
                            THEN Raised([call[c] EXCEPT !.tries = 0],
                                        "DockerUnavailableError")
                            ELSE [call[c] EXCEPT !.tries = @ + 1]]
    /\ UNCHANGED <<cfgVars, language, immutable, docker, nOps, dbg>>

\* _build_image_locally: one pass of `for _ in range(tries)`, a fresh
\* infra/helper.py build_image --pull subprocess each time
_build_image_locally(c) ==
    /\ call[c].pc = "i_local"
    /\ \E ok \in BOOLEAN :
         IF ok
         THEN ImageAcquired(c)
         ELSE /\ ws' = ws
              /\ call' = [call EXCEPT ![c] =
                            IF call[c].tries + 1 = ImageTries
                            THEN Raised([call[c] EXCEPT !.tries = 0],
                                        "DockerUnavailableError")
                            ELSE [call[c] EXCEPT !.tries = @ + 1]]
    /\ UNCHANGED <<cfgVars, language, immutable, docker, nOps, dbg>>

\* ------------------------------------------------------------ replay engine
\* What a captured stream holds, as far as the code looks at it: the sanitizer
\* kinds whose report grammar it matches, the container daemon's error line
\* ("daemon"), and a line "/out/<binary> <args>" ("cmdline").
Features == {"AddressSanitizer", "LibFuzzer", "JavaNativeSanitizer", "daemon", "cmdline"}

Texts == SUBSET Features

None == <<>>

\* <ReportClass>.parse(content): a populated report, or nothing when the content
\* does not match the grammar of that kind
ReportClassParse(content, sanitizer) == sanitizer \in content

\* _extract_repro_command: "" when no line starts with the binary-output path
_extract_repro_command(content) ==
    IF "cmdline" \in content THEN "Reproduction Command Details" ELSE ""

\* a mutant of parse_sanitizer_report: the run command is not put in front
parse_sanitizer_report_no_prefix(content, sanitizer, run_command) ==
    IF sanitizer \notin Sanitizer
    THEN None
    ELSE IF ReportClassParse(content, sanitizer)
         THEN << [kind |-> "report", sanitizer |-> sanitizer, content |-> content,
                  purified_content |-> <<content>>] >>
         ELSE None

\* parse_sanitizer_report(content, sanitizer, run_command=..): None or a report
\* whose purified content is prefixed with the run command when there is one
parse_sanitizer_report(content, sanitizer, run_command) ==
    IF sanitizer \notin Sanitizer
    THEN None
    ELSE IF ReportClassParse(content, sanitizer)
         THEN << [kind |-> "report", sanitizer |-> sanitizer, content |-> content,
                  purified_content |->
                      IF run_command # "" THEN <<run_command, content>>
                                          ELSE <<content>>] >>
         ELSE None

\* a mutant of MatcherChain: the engine-level matcher comes before the bridge matcher
MatcherChainEngineFirst(lang, sanitizer) ==
    IF lang = "CLIKE"
    THEN <<sanitizer, "LibFuzzer">>
    ELSE <<sanitizer, "LibFuzzer", "JavaNativeSanitizer">>

\* _replay lines 334-339: the matchers tried on a failing reproduction
MatcherChain(lang, sanitizer) ==
    IF lang = "CLIKE"
    THEN <<sanitizer, "LibFuzzer">>
    ELSE <<sanitizer, "JavaNativeSanitizer", "LibFuzzer">>

\* a mutant of MatchOrder: stderr is scanned before stdout
MatchOrderStderrFirst(chain) ==
    [i \in 1..(2 * Len(chain)) |->
        [stream |-> IF i <= Len(chain) THEN "stderr" ELSE "stdout",
         sanitizer |-> chain[((i - 1) % Len(chain)) + 1]]]

\* _replay lines 343-344: the (stream, matcher) pairs in the order of the two loops
MatchOrder(chain) ==
    [i \in 1..(2 * Len(chain)) |->
        [stream |-> IF i <= Len(chain) THEN "stdout" ELSE "stderr",
         sanitizer |-> chain[((i - 1) % Len(chain)) + 1]]]

StreamOf(e, name) == IF name = "stdout" THEN e.stdout ELSE e.stderr

\* _replay lines 343-353: the two nested loops, left at the first report
RECURSIVE ScanReports(_, _, _, _)
ScanReports(e, order, i, run_command) ==
    IF i > Len(order)
    THEN [tried |-> order, report |-> None]
    ELSE LET r == parse_sanitizer_report(StreamOf(e, order[i].stream),
                                         order[i].sanitizer, run_command)
         IN  IF r # None
             THEN [tried |-> SubSeq(order, 1, i), report |-> r]
             ELSE ScanReports(e, order, i + 1, run_command)

\* _replay lines 356-358: the daemon's error line in either stream
DockerEvidence(e) == "daemon" \in e.stdout \/ "daemon" \in e.stderr

\* a mutant of ReplayUnmatched: unmatched output is dropped and None is returned
ReplayUnmatchedDropped(e) == ReturnNone

\* a mutant of ReplayUnmatched: the daemon's error line is not looked for
ReplayUnmatchedNoDockerCheck(e) ==
    [kind |-> "unknown", stdout |-> e.stdout, stderr |-> e.stderr]

\* _replay lines 355-360: no matcher accepted either stream
ReplayUnmatched(e) ==
    IF DockerEvidence(e)
    THEN Raise("DockerUnavailableError")
    ELSE [kind |-> "unknown", stdout |-> e.stdout, stderr |-> e.stderr]

\* a mutant of ReplayExcept: the failure is swallowed and None is returned
ReplayExceptSwallowed(e, sanitizer, lang) == [tried |-> <<>>, result |-> ReturnNone]

\* a mutant of ReplayExcept: a reproduction that timed out is not handled; the
\* timeout leaves _replay as an exception
ReplayExceptTimeoutRaised(e, sanitizer, lang) ==
    LET run_command == _extract_repro_command(e.stdout)
        scan == ScanReports(e, MatchOrder(MatcherChain(lang, sanitizer)), 1,
                            run_command)
    IN  IF e.how = "timeout"
        THEN [tried |-> <<>>, result |-> Raise("TimeoutExpired")]
        ELSE [tried |-> scan.tried,
              result |-> IF scan.report # None THEN scan.report[1]
                                               ELSE ReplayUnmatched(e)]

\* _replay lines 333-360, the handler of BuilderProcessError e: the call's
\* result and the (stream, matcher) pairs parse_sanitizer_report was called on
ReplayExcept(e, sanitizer, lang) ==
    LET run_command == _extract_repro_command(e.stdout)
        scan == ScanReports(e, MatchOrder(MatcherChain(lang, sanitizer)), 1,
                            run_command)
    IN  [tried |-> scan.tried,
         result |-> IF scan.report # None THEN scan.report[1]
                                          ELSE ReplayUnmatched(e)]

\* a mutant of ReplayReturned: a report does not end the loop of replay(); the
\* value of the last _replay call is returned
ReplayReturnedLast(cr, res) ==
    LET r == [cr EXCEPT !.outcomes = Append(@, res)]
    IN  IF r.idx < Len(sanitizers)
        THEN [r EXCEPT !.idx = @ + 1, !.pc = "b_entry",
                       !.visited = Append(@, sanitizers[r.idx + 1])]
        ELSE [r EXCEPT !.pc = "done", !.result = res]

\* _replay returned `res` (ReturnNone or a report): replay() returns the first
\* report, goes to the next sanitizer on None, returns None after the last one
ReplayReturned(cr, res) ==
    LET r == [cr EXCEPT !.outcomes = Append(@, res)]
    IN  IF res # ReturnNone
        THEN [r EXCEPT !.pc = "done", !.result = res]
        ELSE IF r.idx < Len(sanitizers)
             THEN [r EXCEPT !.idx = @ + 1, !.pc = "b_entry",
                            !.visited = Append(@, sanitizers[r.idx + 1])]
             ELSE [r EXCEPT !.pc = "done", !.result = ReturnNone]

\* OSSFuzzBuilder.replay(poc, patch): for sanitizer in self.sanitizers: _replay(..)
\* (poc: whether poc.path is a file)
replay(c, poc, patch) ==
    /\ call[c].pc \in {"idle", "done"}
    /\ nOps < MaxOps
    /\ nOps' = nOps + 1
    /\ call' = [call EXCEPT ![c] =
                  [Idle EXCEPT !.pc = "b_entry", !.op = "replay", !.patch = patch,
                               !.poc = poc, !.idx = 1,
                               !.visited = <<sanitizers[1]>>]]
    /\ UNCHANGED <<cfgVars, language, immutable, ws, docker, dbg>>

\* _replay lines 313-315: the three assertions after _build returned
_replay_assert(c) ==
    /\ call[c].pc = "r_assert"
    /\ call' = [call EXCEPT ![c] =
                  IF call[c].poc /\ MarkerIsFile(call[c].key)
                  THEN [call[c] EXCEPT !.pc = "r_immtool"]
                  ELSE Raised(call[c], "AssertionError")]
    /\ UNCHANGED <<cfgVars, language, immutable, ws, docker, nOps, dbg>>

\* safe_subprocess_run (builder/utils.py): the outcomes of one subprocess, exit 0
\* or a BuilderProcessError carrying the captured stdout and stderr (the code
\* looks for the command line in stdout only); how: the process exited with a
\* non-zero status ("exit"), or it was ended when the timeout ran out ("timeout")
safe_subprocess_run(outs, errs, hows) ==
    {[ok |-> TRUE]} \cup
    {[ok |-> FALSE, how |-> h, stdout |-> o, stderr |-> e] :
        h \in hows, o \in outs, e \in errs}

Lang == {"CLIKE", "JVM"}

\* _replay lines 319-360: infra/helper.py reproduce under the timeout; None on
\* exit 0, else the handler of the BuilderProcessError (which reads
\* self.language, a cached_property, from project.yaml the first time);
\* exits records whether each reproduction of the call exited with 0
Reproduce(c, runs) ==
    /\ call[c].pc = "r_reproduce"
    /\ \E run \in runs :
         IF run.ok
         THEN /\ call' = [call EXCEPT ![c] =
                            ReplayReturned([call[c] EXCEPT !.exits = Append(@, TRUE)],
                                           ReturnNone)]
              /\ language' = language
         ELSE /\ language' \in (IF language = "unread" THEN Lang ELSE {language})
              /\ LET h == ReplayExcept(run, CurSan(c), language')
                     cr == [call[c] EXCEPT !.tried = h.tried, !.streams = <<run>>,
                                           !.exits = Append(@, FALSE)]
                 IN  call' = [call EXCEPT ![c] =
                                IF h.result.kind = "raise"
                                THEN Raised(cr, h.result.exc)
                                ELSE ReplayReturned(cr, h.result)]
    /\ UNCHANGED <<cfgVars, immutable, ws, docker, nOps, dbg>>

\* the captured streams of the reproductions in Spec: nothing recognisable, a
\* report of one kind, the daemon's error line
FlowTexts == {{}, {"AddressSanitizer"}, {"LibFuzzer"}, {"daemon"}}

\* _replay's reproduction step within a build/replay sequence
_replay_reproduce(c) == Reproduce(c, safe_subprocess_run(FlowTexts, FlowTexts, {"exit"}))

\* _replay's reproduction step on every pair of captured streams, for a
\* reproduction that exits and for one that runs into replay_poc_timeout
_replay_reproduce_any(c) ==
    Reproduce(c, safe_subprocess_run(Texts, Texts, {"exit", "timeout"}))

\* Builder.__init__ with clean_up run again on the same workspace directory:
\* shutil.rmtree(self.workspace) and a new builder object
Builder__init__ ==
    /\ nOps < MaxOps
    /\ \A c \in Callers : call[c].pc \in {"idle", "done"}
    /\ nOps' = nOps + 1
    /\ call' = [c \in Callers |-> Idle]
    /\ immutable' = [w \in {"source", "tooling"} |-> "absent"]
    /\ ws' = [k \in Workspaces |-> NoDir]
    /\ UNCHANGED <<cfgVars, language, docker, dbg>>

DbgOff == [pc |-> "off"]

Init ==
    /\ repo = NoRepo
    /\ sanitizers \in SanitizerConfigs
    /\ language = "unread"
    /\ docker_registry \in BOOLEAN
    /\ immutable = [w \in {"source", "tooling"} |-> "absent"]
    /\ ws = [k \in Workspaces |-> NoDir]
    /\ docker \in (IF docker_registry THEN BOOLEAN ELSE {FALSE})
    /\ call = [c \in Callers |-> Idle]
    /\ nOps = 0
    /\ dbg = DbgOff

Next ==
    \/ \E c \in Callers, patch \in Patches : build(c, patch)
    \/ \E c \in Callers, patch \in Patches, poc \in BOOLEAN : replay(c, poc, patch)
    \/ \E c \in Callers : _build_entry(c)
    \/ \E c \in Callers : _build_reset(c)
    \/ \E c \in Callers : source_path(c)
    \/ \E c \in Callers : _build_copy_source(c)
    \/ \E c \in Callers : fuzz_tooling_path(c)
    \/ \E c \in Callers : _build_copy_tooling(c)
    \/ \E c \in Callers : _build_patch1(c)
    \/ \E c \in Callers : _build_patch2(c)
    \/ \E c \in Callers : _build_image(c)
    \/ \E c \in Callers : _build_image_pull(c)
    \/ \E c \in Callers : _build_image_tag(c)
    \/ \E c \in Callers : _build_image_locally(c)
    \/ \E c \in Callers : _build_fuzzers(c)
    \/ \E c \in Callers : _build_check(c)
    \/ \E c \in Callers : _build_marker(c)
    \/ \E c \in Callers : _replay_assert(c)
    \/ \E c \in Callers : _replay_reproduce(c)
    \/ Builder__init__

Spec == Init /\ [][Next]_vars

\* a workspace directory holding the complete build of one key
BuiltDir(patch) ==
    [exists |-> TRUE, stages |-> StageSet, marker |-> << [text |-> patch, mtime |-> 1] >>]

\* ReplaySpec starts where _replay is about to run the reproduction of the
\* sanitizer at position i, the build of its key being complete (as Spec
\* reaches it for the configured kinds), and applies the reproduction step to every
\* pair of captured streams.
ReplayInit ==
    /\ repo = NoRepo
    /\ sanitizers \in {<<s>> : s \in DOMAIN SANITIZER_MAP}
    /\ language = "unread"
    /\ docker_registry = FALSE
    /\ docker = FALSE
    /\ immutable = [w \in {"source", "tooling"} |-> "full"]
    /\ \E patch \in Patches :
         LET k == hash_patch(sanitizers[1], patch)
         IN  /\ ws = [w \in Workspaces |-> IF w = k THEN BuiltDir(patch) ELSE NoDir]
             /\ call = [c \in Callers |->
                          [Idle EXCEPT !.pc = "r_reproduce", !.op = "replay",
                                       !.patch = patch, !.idx = 1, !.key = k,
                                       !.keys = <<k>>,
                                       !.visited = <<sanitizers[1]>>]]
    /\ nOps = 1
    /\ dbg = DbgOff

ReplayNext == \E c \in Callers : _replay_reproduce_any(c)

ReplaySpec == ReplayInit /\ [][ReplayNext]_vars

\* ------------------------------------------------- debugger session (debugger.py)
\* number of commands in one strategy of the policy collaborator
MaxCmds == 2

\* default.py line 180: max_steps = 10
max_steps == 10

\* DebuggerSession.__init__: no child, no debugger chosen; stops counts the
\* calls of stop(), procs the live child processes spawned by the object
NewSession == [child |-> "none", debugger |-> "none", stops |-> 0, procs |-> 0]

\* child.isalive() on a child that is not None
IsAlive(s) == s.child = "alive"

\* DebuggerSession.stop: quit and close(force=True) a live child, drop the handle
stop(s) ==
    [s EXCEPT !.stops = @ + 1,
              !.child = "none",
              !.procs = IF s.child = "alive" THEN @ - 1 ELSE @]

\* what the child does with a line sent to it: the prompt comes back, the
\* command times out, or the stream ends
Replies == {"prompt", "timeout", "eof"}

\* kinds of command text: an ordinary command, a quit synonym (q, quit, exit in
\* any case, with blanks around), a blank line
CmdKinds == {"cmd", "quit", "blank"}

\* a mutant of run_command: the blank-command test comes before the test of
\* the child
run_command_blank_first(s, cmd, reply) ==
    IF cmd = "blank"
    THEN [s |-> s, out |-> "", sent |-> FALSE]
    ELSE IF s.child = "none" \/ ~IsAlive(s)
    THEN [s |-> s, out |-> "Debugger is not running. Please start it first.", sent |-> FALSE]
    ELSE IF cmd = "quit"
    THEN [s |-> stop(s), out |-> "Debugger session ended.", sent |-> FALSE]
    ELSE IF reply = "prompt"
    THEN [s |-> s, out |-> "output", sent |-> TRUE]
    ELSE IF reply = "timeout"
    THEN [s |-> s, out |-> "Command timed out.", sent |-> TRUE]
    ELSE [s |-> stop(s), out |-> "Debugger session ended unexpectedly (EOF).",
          sent |-> TRUE]

\* a mutant of run_command: the quit synonyms are sent like any other command
run_command_quit_sent(s, cmd, reply) ==
    IF s.child = "none" \/ ~IsAlive(s)
    THEN [s |-> s, out |-> "Debugger is not running. Please start it first.", sent |-> FALSE]
    ELSE IF cmd = "blank"
    THEN [s |-> s, out |-> "", sent |-> FALSE]
    ELSE IF reply = "prompt"
    THEN [s |-> s, out |-> "output", sent |-> TRUE]
    ELSE IF reply = "timeout"
    THEN [s |-> s, out |-> "Command timed out.", sent |-> TRUE]
    ELSE [s |-> stop(s), out |-> "Debugger session ended unexpectedly (EOF).",
          sent |-> TRUE]

\* a mutant of run_command: a command timeout stops the session as well
run_command_timeout_stops(s, cmd, reply) ==
    IF s.child = "none" \/ ~IsAlive(s)
    THEN [s |-> s, out |-> "Debugger is not running. Please start it first.", sent |-> FALSE]
    ELSE IF cmd = "blank"
    THEN [s |-> s, out |-> "", sent |-> FALSE]
    ELSE IF cmd = "quit"
    THEN [s |-> stop(s), out |-> "Debugger session ended.", sent |-> FALSE]
    ELSE IF reply = "prompt"
    THEN [s |-> s, out |-> "output", sent |-> TRUE]
    ELSE IF reply = "timeout"
    THEN [s |-> stop(s), out |-> "Command timed out.", sent |-> TRUE]
    ELSE [s |-> stop(s), out |-> "Debugger session ended unexpectedly (EOF).",
          sent |-> TRUE]

\* a mutant of run_command: a command on a session without a live child
\* spawns a new child and sends the command to it
run_command_respawns(s, cmd, reply) ==
    LET s1 == IF s.child = "none" \/ ~IsAlive(s)
              THEN [s EXCEPT !.child = "alive", !.procs = @ + 1]
              ELSE s
    IN  IF cmd = "blank"
        THEN [s |-> s1, out |-> "", sent |-> FALSE]
        ELSE IF cmd = "quit"
        THEN [s |-> stop(s1), out |-> "Debugger session ended.", sent |-> FALSE]
        ELSE IF reply = "prompt"
        THEN [s |-> s1, out |-> "output", sent |-> TRUE]
        ELSE IF reply = "timeout"
        THEN [s |-> s1, out |-> "Command timed out.", sent |-> TRUE]
        ELSE [s |-> stop(s1), out |-> "Debugger session ended unexpectedly (EOF).",
              sent |-> TRUE]

\* DebuggerSession.run_command(command): the session afterwards and the text returned
run_command(s, cmd, reply) ==
    IF s.child = "none" \/ ~IsAlive(s)
    THEN [s |-> s, out |-> "Debugger is not running. Please start it first.", sent |-> FALSE]
    ELSE IF cmd = "blank"
    THEN [s |-> s, out |-> "", sent |-> FALSE]
    ELSE IF cmd = "quit"
    THEN [s |-> stop(s), out |-> "Debugger session ended.", sent |-> FALSE]
    ELSE IF reply = "prompt"
    THEN [s |-> s, out |-> "output", sent |-> TRUE]
    ELSE IF reply = "timeout"
    THEN [s |-> s, out |-> "Command timed out.", sent |-> TRUE]
    ELSE [s |-> stop(s), out |-> "Debugger session ended unexpectedly (EOF).",
          sent |-> TRUE]

\* a mutant of start: a running child is not torn down before the new spawn
start_no_teardown(s, found, boot, banner, hasArgs, reply) ==
    IF found = "none"
    THEN [s |-> s, msg |-> "No debugger available"]
    ELSE LET s1 == [s EXCEPT !.debugger = found, !.child = "alive", !.procs = @ + 1]
         IN  IF boot # "prompt"
             THEN [s |-> stop(s1), msg |-> "Failed to start"]
             ELSE [s |-> IF hasArgs THEN run_command(s1, "cmd", reply).s ELSE s1,
                   msg |-> IF banner THEN "Debugger started successfully. Failed"
                                     ELSE "Debugger started successfully."]

\* DebuggerSession.start(program_path, program_args) on debugger = None:
\*   found  : what _detect_available_debugger returns ("none", "gdb", "lldb")
\*   boot   : the child's answer while start waits for the first prompt
\*   banner : whether the text before the first prompt contains "Failed"
\*   hasArgs, reply : program_args is not empty; the answer to its set-args command
start(s, found, boot, banner, hasArgs, reply) ==
    LET s0 == IF s.child # "none" /\ IsAlive(s) THEN stop(s) ELSE s
    IN  IF found = "none"
        THEN [s |-> s0, msg |-> "No debugger available"]
        ELSE LET s1 == [s0 EXCEPT !.debugger = found, !.child = "alive",
                                  !.procs = @ + 1]
             IN  IF boot # "prompt"
                 THEN [s |-> stop(s1), msg |-> "Failed to start"]
                 ELSE [s |-> IF hasArgs THEN run_command(s1, "cmd", reply).s ELSE s1,
                       msg |-> IF banner THEN "Debugger started successfully. Failed"
                                         ELSE "Debugger started successfully."]

\* a mutant of set_source_map: the directive is never sent to the child
set_source_map_not_sent(s, reply) == [s |-> s, out |-> "Debugger not running.", sent |-> FALSE]

\* DebuggerSession.set_source_map(remote_path, develop_path)
set_source_map(s, reply) ==
    IF s.child = "none" \/ ~IsAlive(s)
    THEN [s |-> s, out |-> "Debugger not running.", sent |-> FALSE]
    ELSE run_command(s, "cmd", reply)

\* ------------------------------------------- diagnosis loop (default.py, debugger)
\* next_action of a strategy: "quit" ends the loop; "exit" stands for the quit
\* synonyms that are not the text "quit" (run_command ends the session on them,
\* the loop goes on); "continue" for every other action
NextActions == {"continue", "quit", "exit"}

ActionCmd(a) == IF a = "continue" THEN "cmd" ELSE "quit"

RECURSIVE SeqsUpTo(_, _)
SeqsUpTo(S, n) ==
    IF n = 0 THEN {<<>>}
    ELSE LET shorter == SeqsUpTo(S, n - 1)
         IN  shorter \cup {Append(q, x) : q \in shorter, x \in S}

\* the strategies a JSON object of the policy can hold, as the loop reads them:
\* strategy.get("commands", []) and strategy.get("next_action", "continue")
Strategies ==
    {[commands |-> q, next_action |-> a] : q \in SeqsUpTo(CmdKinds, MaxCmds),
                                           a \in NextActions}

\* a mutant of LoopGuard: the bound is off by one
LoopGuardInclusive(step) == step <= max_steps

\* default.py line 225: while step < max_steps
LoopGuard(step) == step < max_steps

\* entries of session_history that the model tells apart: the history is an
\* accumulating text, modelled by the number of its entries up to this cap
MaxHist == 3

\* session_history += f"(gdb) {final_cmd}\n{output}\n" (lines 233 and 241)
session_history_append(h) == IF h < MaxHist THEN h + 1 ELSE h

\* hist: entries appended to session_history; mapped: what set_source_map did
\* ("no" before the call, "sent" the directive, "skipped" it); polSent: a
\* command or next action of the policy was sent to the child; sums: the
\* prompts of the summarization calls made; toolcalls: the results handed to
\* add_tool_call("debugger", ..); value: the value the tool returned; refused:
\* the last command or next action run got the not-running text of run_command;
\* parsed: what _parse_json_response made of the last answer of the policy
DbgInit(hasArgs) ==
    [pc |-> "d_start", s |-> NewSession, hasArgs |-> hasArgs, step |-> 0, acts |-> 0,
     cmds |-> <<>>, action |-> "continue", parsed |-> "object", quitSeen |-> FALSE,
     llm |-> 0,
     hist |-> 0, mapped |-> "no", polSent |-> FALSE, refused |-> FALSE,
     sums |-> <<>>, toolcalls |-> <<>>, value |-> <<>>, result |-> "pending"]

\* default.py lines 147-151: a new session, start, and the early return when
\* the start message contains "Failed" or "No debugger"
diagnose_start ==
    /\ dbg.pc = "d_start"
    /\ \E found \in {"none", "gdb", "lldb"}, boot \in Replies, banner \in BOOLEAN,
          reply \in Replies :
         LET r == start(dbg.s, found, boot, banner, dbg.hasArgs, reply)
         IN  dbg' = IF r.msg \in {"No debugger available", "Failed to start",
                                  "Debugger started successfully. Failed"}
                    THEN [dbg EXCEPT !.s = r.s, !.pc = "returned", !.result = r.msg]
                    ELSE [dbg EXCEPT !.s = r.s, !.pc = "d_map"]
    /\ UNCHANGED <<cfgVars, language, immutable, ws, docker, call, nOps>>

\* default.py lines 155-157: session.set_source_map(..)
diagnose_source_map ==
    /\ dbg.pc = "d_map"
    /\ \E reply \in Replies :
         LET r == set_source_map(dbg.s, reply)
         IN  dbg' = [dbg EXCEPT !.s = r.s, !.pc = "d_llm0",
                                !.mapped = IF r.sent THEN "sent" ELSE "skipped"]
    /\ UNCHANGED <<cfgVars, language, immutable, ws, docker, call, nOps>>

\* response.content of the policy, as far as _parse_json_response and the loop
\* look at it: a JSON object (the strategy it holds, with the defaults of
\* strategy.get for absent fields), text that is no JSON, or a JSON value that
\* is no object (a list, a number, a string)
Contents ==
    {[json |-> "object", strategy |-> st] : st \in Strategies}
    \cup {[json |-> "invalid"], [json |-> "other"]}

\* _parse_json_response (lines 96-107): json.loads of the content; only
\* json.JSONDecodeError is caught, and answered by the fallback strategy; a JSON
\* value that is no object is returned as it is (parsed = "other": it has no
\* .get, the fields written here are never read)
_parse_json_response(content) ==
    IF content.json = "object"
    THEN [parsed |-> "object", commands |-> content.strategy.commands,
          next_action |-> content.strategy.next_action]
    ELSE IF content.json = "invalid"
    THEN [parsed |-> "fallback", commands |-> <<>>, next_action |-> "quit"]
    ELSE [parsed |-> "other", commands |-> <<>>, next_action |-> "continue"]

\* llm.invoke(prompt) for a strategy: it raises, or its answer is parsed
Hypothesis(d) ==
    \/ dbg' = [d EXCEPT !.pc = "raised", !.result = "policy error", !.llm = @ + 1]
    \/ \E content \in Contents :
         LET st == _parse_json_response(content)
         IN  dbg' = [d EXCEPT !.pc = "d_loop", !.llm = @ + 1, !.cmds = st.commands,
                              !.action = st.next_action, !.parsed = st.parsed,
                              !.quitSeen = @ \/ st.next_action = "quit"]

\* default.py lines 176-181: the initial strategy
diagnose_initial_strategy ==
    /\ dbg.pc = "d_llm0"
    /\ Hypothesis(dbg)
    /\ UNCHANGED <<cfgVars, language, immutable, ws, docker, call, nOps>>

\* default.py lines 225-228: the loop test and the start of a step, where
\* strategy.get raises AttributeError on a strategy that is no dict
diagnose_loop ==
    /\ dbg.pc = "d_loop"
    /\ dbg' = IF LoopGuard(dbg.step)
              THEN IF dbg.parsed = "other"
                   THEN [dbg EXCEPT !.step = @ + 1, !.pc = "raised",
                                    !.result = "AttributeError"]
                   ELSE [dbg EXCEPT !.step = @ + 1, !.pc = "d_cmds"]
              ELSE [dbg EXCEPT !.pc = "d_stop"]
    /\ UNCHANGED <<cfgVars, language, immutable, ws, docker, call, nOps>>

\* default.py lines 231-234: one command of the step through run_cmd_with_path_fix
diagnose_command ==
    /\ dbg.pc = "d_cmds"
    /\ dbg.cmds # <<>>
    /\ \E reply \in Replies :
         LET r == run_command(dbg.s, Head(dbg.cmds), reply)
         IN  dbg' = [dbg EXCEPT !.s = r.s, !.cmds = Tail(@), !.hist = session_history_append(@),
                                !.polSent = @ \/ r.sent,
                                !.refused = (r.out = "Debugger is not running. Please start it first.")]
    /\ UNCHANGED <<cfgVars, language, immutable, ws, docker, call, nOps>>

\* a mutant of diagnose_next_action: the quit action goes through
\* run_cmd_with_path_fix like any other next action before the loop is left
diagnose_next_action_quit_filtered ==
    /\ dbg.pc = "d_cmds"
    /\ dbg.cmds = <<>>
    /\ \E reply \in Replies :
         LET r == run_command(dbg.s, ActionCmd(dbg.action), reply)
         IN  dbg' = [dbg EXCEPT !.s = r.s, !.acts = @ + 1, !.hist = session_history_append(@),
                                !.polSent = @ \/ r.sent,
                                !.refused = (r.out = "Debugger is not running. Please start it first."),
                                !.pc = IF dbg.action = "quit" THEN "d_stop" ELSE "d_llm"]
    /\ UNCHANGED <<cfgVars, language, immutable, ws, docker, call, nOps>>

\* default.py lines 236-242: break on "quit", else the next action through
\* run_cmd_with_path_fix
diagnose_next_action ==
    /\ dbg.pc = "d_cmds"
    /\ dbg.cmds = <<>>
    /\ IF dbg.action = "quit"
       THEN dbg' = [dbg EXCEPT !.pc = "d_stop"]
       ELSE \E reply \in Replies :
              LET r == run_command(dbg.s, ActionCmd(dbg.action), reply)
              IN  dbg' = [dbg EXCEPT !.s = r.s, !.acts = @ + 1, !.hist = session_history_append(@),
                                     !.polSent = @ \/ r.sent,
                                     !.refused = (r.out = "Debugger is not running. Please start it first."),
                                     !.pc = "d_llm"]
    /\ UNCHANGED <<cfgVars, language, immutable, ws, docker, call, nOps>>

\* default.py lines 245-259: the next strategy
diagnose_next_strategy ==
    /\ dbg.pc = "d_llm"
    /\ Hypothesis(dbg)
    /\ UNCHANGED <<cfgVars, language, immutable, ws, docker, call, nOps>>

\* default.py line 261: session.stop()
diagnose_stop ==
    /\ dbg.pc = "d_stop"
    /\ dbg' = [dbg EXCEPT !.s = stop(dbg.s), !.pc = "d_sum1"]
    /\ UNCHANGED <<cfgVars, language, immutable, ws, docker, call, nOps>>

\* a mutant of DEBUGGER_OUTPUT_SUMMARY_PROMPT_format: the session history is
\* left out of the prompt
DEBUGGER_OUTPUT_SUMMARY_PROMPT_no_history(stack_trace, gdb_session) ==
    [prompt |-> "DEBUGGER_OUTPUT_SUMMARY_PROMPT", stack_trace |-> stack_trace,
     gdb_session |-> 0]

\* default.py lines 265 and 270-273: the prompts of the two summarization calls
STACK_TRACE_SUMMARY_PROMPT_format(stack_trace) ==
    [prompt |-> "STACK_TRACE_SUMMARY_PROMPT", stack_trace |-> stack_trace]

DEBUGGER_OUTPUT_SUMMARY_PROMPT_format(stack_trace, gdb_session) ==
    [prompt |-> "DEBUGGER_OUTPUT_SUMMARY_PROMPT", stack_trace |-> stack_trace,
     gdb_session |-> gdb_session]

\* response.content of llm.invoke(prompt) for a summarization prompt
SummaryOf(prompt) == <<"summary of", prompt>>

\* default.py lines 265-267: the stack-trace summary
diagnose_summarize_trace ==
    /\ dbg.pc = "d_sum1"
    /\ LET prompt == STACK_TRACE_SUMMARY_PROMPT_format("task.report.summary")
       IN  \/ dbg' = [dbg EXCEPT !.pc = "raised", !.result = "policy error",
                                 !.sums = Append(@, prompt)]
           \/ dbg' = [dbg EXCEPT !.pc = "d_sum2", !.sums = Append(@, prompt)]
    /\ UNCHANGED <<cfgVars, language, immutable, ws, docker, call, nOps>>

\* default.py lines 270-278: the session summary, add_tool_call, return
diagnose_summarize_session ==
    /\ dbg.pc = "d_sum2"
    /\ LET prompt == DEBUGGER_OUTPUT_SUMMARY_PROMPT_format(SummaryOf(dbg.sums[1]),
                                                          dbg.hist)
       IN  \/ dbg' = [dbg EXCEPT !.pc = "raised", !.result = "policy error",
                                 !.sums = Append(@, prompt)]
           \/ dbg' = [dbg EXCEPT !.pc = "returned", !.result = "summary",
                                 !.sums = Append(@, prompt),
                                 !.toolcalls = Append(@, SummaryOf(prompt)),
                                 !.value = SummaryOf(prompt)]
    /\ UNCHANGED <<cfgVars, language, immutable, ws, docker, call, nOps>>

\* the debugger process ends on its own between two commands
child_exits ==
    /\ dbg.pc \in {"d_map", "d_llm0", "d_loop", "d_cmds", "d_llm", "d_stop"}
    /\ dbg.s.child = "alive"
    /\ dbg' = [dbg EXCEPT !.s.child = "dead", !.s.procs = @ - 1]
    /\ UNCHANGED <<cfgVars, language, immutable, ws, docker, call, nOps>>

DiagInit ==
    /\ repo = NoRepo
    /\ sanitizers = <<"AddressSanitizer">>
    /\ language = "unread"
    /\ docker_registry = FALSE
    /\ docker = FALSE
    /\ immutable = [w \in {"source", "tooling"} |-> "absent"]
    /\ ws = [k \in Workspaces |-> NoDir]
    /\ call = [c \in Callers |-> Idle]
    /\ nOps = 0
    /\ \E hasArgs \in BOOLEAN : dbg = DbgInit(hasArgs)

DiagNext ==
    \/ diagnose_start
    \/ diagnose_source_map
    \/ diagnose_initial_strategy
    \/ diagnose_loop
    \/ diagnose_command
    \/ diagnose_next_action
    \/ diagnose_next_strategy
    \/ diagnose_stop
    \/ diagnose_summarize_trace
    \/ diagnose_summarize_session
    \/ child_exits

DiagSpec == DiagInit /\ [][DiagNext]_vars

\* every call the tool makes blocks and comes back (the debugger round trips are
\* bounded by their timeouts), so a run that can take a step takes one
DiagLiveSpec == DiagInit /\ [][DiagNext]_vars /\ WF_vars(DiagNext)

\* ------------------------------------- one session object under any caller
\* number of calls made on the session object
MaxCalls == 3

\* the last call on the session: its name and arguments, the child's answers,
\* the session before it (was), the text returned, whether a line was sent
NoCall == [name |-> "new"]

SessionInit ==
    /\ repo = NoRepo
    /\ sanitizers = <<"AddressSanitizer">>
    /\ language = "unread"
    /\ docker_registry = FALSE
    /\ docker = FALSE
    /\ immutable = [w \in {"source", "tooling"} |-> "absent"]
    /\ ws = [k \in Workspaces |-> NoDir]
    /\ call = [c \in Callers |-> Idle]
    /\ nOps = 0
    /\ dbg = [pc |-> "session", s |-> NewSession, op |-> NoCall, n |-> 0]

\* session.start(program, args)
session_start ==
    /\ dbg.pc = "session" /\ dbg.n < MaxCalls
    /\ \E found \in {"none", "gdb", "lldb"}, boot \in Replies, banner \in BOOLEAN,
          hasArgs \in BOOLEAN, reply \in Replies :
         LET r == start(dbg.s, found, boot, banner, hasArgs, reply)
         IN  dbg' = [dbg EXCEPT !.s = r.s, !.n = @ + 1,
                       !.op = [name |-> "start", was |-> dbg.s, out |-> r.msg,
                               found |-> found, boot |-> boot, hasArgs |-> hasArgs,
                               reply |-> reply, cmd |-> "cmd", sent |-> FALSE]]
    /\ UNCHANGED <<cfgVars, language, immutable, ws, docker, call, nOps>>

\* session.run_command(command)
session_run_command ==
    /\ dbg.pc = "session" /\ dbg.n < MaxCalls
    /\ \E cmd \in CmdKinds, reply \in Replies :
         LET r == run_command(dbg.s, cmd, reply)
         IN  dbg' = [dbg EXCEPT !.s = r.s, !.n = @ + 1,
                       !.op = [name |-> "run_command", was |-> dbg.s, out |-> r.out,
                               cmd |-> cmd, reply |-> reply, sent |-> r.sent]]
    /\ UNCHANGED <<cfgVars, language, immutable, ws, docker, call, nOps>>

\* session.set_source_map(remote_path, develop_path)
session_set_source_map ==
    /\ dbg.pc = "session" /\ dbg.n < MaxCalls
    /\ \E reply \in Replies :
         LET r == set_source_map(dbg.s, reply)
         IN  dbg' = [dbg EXCEPT !.s = r.s, !.n = @ + 1,
                       !.op = [name |-> "set_source_map", was |-> dbg.s, out |-> r.out,
                               cmd |-> "cmd", reply |-> reply, sent |-> r.sent]]
    /\ UNCHANGED <<cfgVars, language, immutable, ws, docker, call, nOps>>

\* session.stop()
session_stop ==
    /\ dbg.pc = "session" /\ dbg.n < MaxCalls
    /\ dbg' = [dbg EXCEPT !.s = stop(dbg.s), !.n = @ + 1,
                 !.op = [name |-> "stop", was |-> dbg.s]]
    /\ UNCHANGED <<cfgVars, language, immutable, ws, docker, call, nOps>>

\* the debugger process ends on its own between two calls
session_child_exits ==
    /\ dbg.pc = "session"
    /\ dbg.s.child = "alive"
    /\ dbg' = [dbg EXCEPT !.s.child = "dead", !.s.procs = @ - 1,
                 !.op = [name |-> "child_exits", was |-> dbg.s]]
    /\ UNCHANGED <<cfgVars, language, immutable, ws, docker, call, nOps>>

SessionNext ==
    \/ session_start
    \/ session_run_command
    \/ session_set_source_map
    \/ session_stop
    \/ session_child_exits

SessionSpec == SessionInit /\ [][SessionNext]_vars

\* ------------------------------------ command rewriting (run_cmd_with_path_fix)
\* A command is the sequence of its whitespace-separated tokens; a token is a
\* sequence of atoms: a word (characters other than ":" and digits), ":", or one
\* digit.  Whitespace is not kept (split() and join() of the code).
\* number of tokens after the first in a command given to the rewriting
MaxArgs == 3

\* number of atoms in one token with colons and digits
MaxAtoms == 4

Digits == {"4", "2"}

\* the tool's `program` argument; develop_program (default.py lines 136-140)
\* is program with the prefix /out replaced by the develop out root
program == "/out/fuzzer"

develop_program == "/ws/out/fuzzer"

\* words that end with "/" + Path(program).name
EndsWithProgramName == {"/out/fuzzer", "/ws/out/fuzzer", "/x/fuzzer"}

\* task.pocs: no proof of concept, or one whose path is /tmp/poc
PocLists == {<<>>, <<"/tmp/poc">>}

\* OSSFuzzBuilder.resolve_poc_path(arg_token, pocs) on a token
resolve_poc_path(token, pocs) ==
    IF token = <<"/testcase">>
    THEN IF pocs # <<>> THEN <<pocs[1]>> ELSE token
    ELSE token

\* guess_relpath(develop_source_root_path, Path(path_str)): the relative path
\* of the known source file matching the longest suffix of the path, or None
guess_relpath(path) ==
    CASE path = <<"foo.c">> -> <<"src/foo.c">>
      [] path = <<"/src/p/foo.c">> -> <<"src/foo.c">>
      [] OTHER -> None

\* a mutant of replace_path: the line number of a rewritten token is lost
replace_path_line_lost(path_str, line_str, whole) ==
    LET guessed == guess_relpath(path_str)
    IN  IF guessed # None THEN guessed \o <<":">> \o <<"1">> ELSE whole

\* replace_path(match): group 1 is the path, group 2 the line, group 0 the match
replace_path(path_str, line_str, whole) ==
    LET guessed == guess_relpath(path_str)
    IN  IF guessed # None THEN guessed \o <<":">> \o line_str ELSE whole

\* the positions of a ":" that has something before it and a digit after it
ColonDigit(token) ==
    {i \in 2..(Len(token) - 1) : token[i] = ":" /\ token[i + 1] \in Digits}

\* the last position of the run of digits that starts at position i
RECURSIVE DigitsEnd(_, _)
DigitsEnd(token, i) ==
    IF i < Len(token) /\ token[i + 1] \in Digits THEN DigitsEnd(token, i + 1) ELSE i

\* the match of (\S+):(\d+) in a token: \S+ is greedy, so the path runs up to
\* the last ":" followed by a digit; nothing after the match can match again
PathLineMatch(token) ==
    LET i == CHOOSE k \in ColonDigit(token) : \A m \in ColonDigit(token) : m <= k
        j == DigitsEnd(token, i + 1)
    IN  [path |-> SubSeq(token, 1, i - 1), line |-> SubSeq(token, i + 1, j),
         whole |-> SubSeq(token, 1, j), tail |-> SubSeq(token, j + 1, Len(token))]

\* re.sub(r"(\S+):(\d+)", replace_path, ..) within one token
re_sub_token(token) ==
    IF ColonDigit(token) = {}
    THEN token
    ELSE LET m == PathLineMatch(token)
         IN  replace_path(m.path, m.line, m.whole) \o m.tail

\* re.sub(r"(\S+):(\d+)", replace_path, raw_cmd): a match never spans whitespace
re_sub(tokens) == [i \in 1..Len(tokens) |-> re_sub_token(tokens[i])]

\* a mutant of RunFix: the binary path stays in the run command
RunFixKeepsBinary(tokens, pocs) ==
    IF tokens # <<>> /\ tokens[1] \in {<<"r">>, <<"run">>}
    THEN <<tokens[1]>> \o
         [i \in 1..(Len(tokens) - 1) |-> resolve_poc_path(tokens[i + 1], pocs)]
    ELSE tokens

\* run_cmd_with_path_fix lines 188-209: the rewriting of a run directive
RunFix(tokens, pocs) ==
    IF tokens # <<>> /\ tokens[1] \in {<<"r">>, <<"run">>}
    THEN LET first_arg == tokens[2]
             args_start_idx ==
                 IF Len(tokens) > 1
                    /\ (\/ first_arg = <<program>>
                        \/ first_arg = <<develop_program>>
                        \/ first_arg[Len(first_arg)] \in EndsWithProgramName)
                 THEN 2 ELSE 1
             rest == SubSeq(tokens, args_start_idx + 1, Len(tokens))
         IN  <<tokens[1]>> \o [i \in 1..Len(rest) |-> resolve_poc_path(rest[i], pocs)]
    ELSE tokens

\* run_cmd_with_path_fix(raw_cmd): final_cmd, the command given to the session
run_cmd_with_path_fix(tokens, pocs) == re_sub(RunFix(tokens, pocs))

\* words of the commands given to the rewriting
RunWords == {"run", "r", "break", "/out/fuzzer", "/ws/out/fuzzer", "/x/fuzzer",
             "/testcase", "-v"}

RECURSIVE SeqsOfLen(_, _)
SeqsOfLen(S, n) ==
    IF n = 0 THEN {<<>>} ELSE {Append(q, x) : q \in SeqsOfLen(S, n - 1), x \in S}

\* tokens with colons and digits
LineTokens ==
    UNION {SeqsOfLen({"foo.c", "nog.c", ":"} \cup Digits, n) : n \in 1..MaxAtoms}

\* the commands rewritten: directives with word arguments, with or without a
\* path:line token at the end, and commands with one token of any shape
RawCommands ==
    LET words == UNION {SeqsOfLen({<<w>> : w \in RunWords}, n) : n \in 1..(MaxArgs + 1)}
    IN  words
        \cup {<<d, t>> : d \in {<<"break">>, <<"run">>, <<"list">>}, t \in LineTokens}
        \cup {<<<<"run">>, <<"/out/fuzzer">>, a, <<"foo.c", ":", "4", "2">>>> :
                 a \in {<<"/testcase">>, <<"-v">>}}

\* one call of run_cmd_with_path_fix on raw_cmd, up to session.run_command
RewriteInit ==
    /\ repo = NoRepo
    /\ sanitizers = <<"AddressSanitizer">>
    /\ language = "unread"
    /\ docker_registry = FALSE
    /\ docker = FALSE
    /\ immutable = [w \in {"source", "tooling"} |-> "absent"]
    /\ ws = [k \in Workspaces |-> NoDir]
    /\ call = [c \in Callers |-> Idle]
    /\ nOps = 0
    /\ \E raw \in RawCommands, pocs \in PocLists :
         dbg = [pc |-> "rw_call", raw_cmd |-> raw, pocs |-> pocs, fixed |-> <<>>,
                final_cmd |-> <<>>]

\* fixed: raw_cmd as it is after line 209, before the path:line rewriting
rewrite_command ==
    /\ dbg.pc = "rw_call"
    /\ dbg' = [dbg EXCEPT !.pc = "rw_sent",
                          !.fixed = RunFix(dbg.raw_cmd, dbg.pocs),
                          !.final_cmd = run_cmd_with_path_fix(dbg.raw_cmd, dbg.pocs)]
    /\ UNCHANGED <<cfgVars, language, immutable, ws, docker, call, nOps>>

RewriteNext == rewrite_command

RewriteSpec == RewriteInit /\ [][RewriteNext]_vars

\* ---------------------------- scratch checkout and patch tools (builder.py)
\* calls on the scratch checkout in one behaviour
MaxPatchOps == 3

\* two patches that each apply to the original source and change the same
\* lines of it, so that neither applies on top of the other
Good == {"a", "b"}

\* the empty patch, the two good ones, and one whose hunks match nothing
PatchTexts == {""} \cup Good \cup {"bad"}

\* a git apply that takes empty input as a patch that changes nothing
git_apply_allow_empty(tree, patch) ==
    IF patch = "" \/ (patch \in Good /\ tree.applied = {})
    THEN [ok |-> TRUE, tree |-> [tree EXCEPT !.applied = tree.applied \cup (Good \cap {patch})]]
    ELSE [ok |-> FALSE, tree |-> tree]

\* `git apply` (check_patch lines 80-84) on a working tree: all or nothing;
\* exit 128 on empty input ("No valid patches in input") and exit 1 on a patch
\* that does not apply to the tree as it is
git_apply(tree, patch) ==
    IF patch \in Good /\ tree.applied = {}
    THEN [ok |-> TRUE, tree |-> [tree EXCEPT !.applied = {patch}]]
    ELSE [ok |-> FALSE, tree |-> tree]

\* `patch -p1` (_build lines 200 and 202; with -F 3 in format_patch line 94) on
\* a tree: exit 0 without touching anything on empty input, exit 0 on a patch
\* that applies, exit 1 with reject files left in the tree otherwise (also for
\* a patch that is already applied: "Reversed (or previously applied) patch")
patch_p1(tree, patch) ==
    IF patch = "" THEN [ok |-> TRUE, tree |-> tree]
    ELSE IF patch \in Good /\ tree.applied = {}
    THEN [ok |-> TRUE, tree |-> [tree EXCEPT !.applied = {patch}]]
    ELSE [ok |-> FALSE, tree |-> [tree EXCEPT !.junk = TRUE]]

\* Builder.source_repo (lines 47-64), a cached_property: the first use copies
\* the source only if workspace/git/<name> is absent, drops .git, and commits
\* every file the directory holds as the initial commit
source_repo(r) ==
    IF r.cached THEN r
    ELSE [r EXCEPT !.dir = TRUE, !.cached = TRUE,
                   !.tree = IF r.dir THEN r.tree ELSE Pristine,
                   !.head = IF r.dir THEN r.tree ELSE Pristine]

\* git reset --hard followed by git clean -fdx (lines 77-78 and 89-90): the
\* working tree is the tree of the head commit again
reset_clean(r) == [r EXCEPT !.tree = r.head]

\* Builder.check_patch (lines 74-84): the checkout after the call, with the
\* call and its outcome in op
check_patch(r, patch) ==
    LET r0 == reset_clean(source_repo(r))
        res == git_apply(r0.tree, patch)
    IN  [r0 EXCEPT !.tree = res.tree,
                   !.op = [name |-> "check_patch", patch |-> patch,
                           result |-> IF res.ok THEN "ok" ELSE "BuilderProcessError"]]

\* Builder.format_patch (lines 86-101): the git diff of the patched tree, or
\* None when patch fails
format_patch(r, patch) ==
    LET r0 == reset_clean(source_repo(r))
        res == patch_p1(r0.tree, patch)
    IN  [r0 EXCEPT !.tree = res.tree,
                   !.op = [name |-> "format_patch", patch |-> patch,
                           result |-> IF res.ok THEN "diff" ELSE "None"]]

\* _build lines 192-202 in a workspace of its own: the fresh copy of the
\* source, then the two `patch -p1` runs on the same input; pass is the run
\* that raised (0 if none), tree the source tree of the workspace afterwards
_build_patch_passes(patch) ==
    LET p1 == patch_p1(Pristine, patch)
        p2 == patch_p1(p1.tree, patch)
    IN  [name |-> "_build", patch |-> patch,
         result |-> IF p1.ok /\ p2.ok THEN "ok" ELSE "BuilderProcessError",
         pass |-> IF ~p1.ok THEN 1 ELSE IF ~p2.ok THEN 2 ELSE 0,
         tree |-> IF p1.ok THEN p2.tree ELSE p1.tree]

PatchInit ==
    /\ repo = NoRepo
    /\ sanitizers \in SanitizerConfigs
    /\ language = "unread"
    /\ docker_registry = FALSE
    /\ docker = FALSE
    /\ immutable = [w \in {"source", "tooling"} |-> "absent"]
    /\ ws = [k \in Workspaces |-> NoDir]
    /\ call = [c \in Callers |-> Idle]
    /\ nOps = 0
    /\ dbg = DbgOff

PatchUnchanged == UNCHANGED <<sanitizers, docker_registry, language, ws, docker, call, nOps, dbg>>

\* the copy that source_repo takes goes through Builder.source_path, which
\* fills workspace/immutable the first time
ImmutableAfter(r) ==
    IF r.cached \/ r.dir THEN immutable ELSE [immutable EXCEPT !["source"] = "full"]

patch_check(patch) ==
    /\ repo.n < MaxPatchOps
    /\ repo' = [check_patch(repo, patch) EXCEPT !.n = repo.n + 1]
    /\ immutable' = ImmutableAfter(repo)
    /\ PatchUnchanged

patch_format(patch) ==
    /\ repo.n < MaxPatchOps
    /\ repo' = [format_patch(repo, patch) EXCEPT !.n = repo.n + 1]
    /\ immutable' = ImmutableAfter(repo)
    /\ PatchUnchanged

patch_build(patch) ==
    /\ repo.n < MaxPatchOps
    /\ repo' = [repo EXCEPT !.op = _build_patch_passes(patch), !.n = repo.n + 1]
    /\ immutable' = [immutable EXCEPT !["source"] = "full"]
    /\ PatchUnchanged

\* Builder.__init__ (lines 23-35) on the workspace directory of the builder
\* before it: a new object, whose source_repo is not computed yet; the
\* workspace is removed first if clean_up
patch_new_builder(clean_up) ==
    /\ repo.n < MaxPatchOps
    /\ repo' = IF clean_up
               THEN [NoRepo EXCEPT !.op = [name |-> "__init__", clean_up |-> TRUE],
                                   !.n = repo.n + 1]
               ELSE [repo EXCEPT !.cached = FALSE,
                                 !.op = [name |-> "__init__", clean_up |-> FALSE],
                                 !.n = repo.n + 1]
    /\ immutable' = IF clean_up THEN [w \in {"source", "tooling"} |-> "absent"]
                    ELSE immutable
    /\ PatchUnchanged

PatchNext ==
    \/ \E patch \in PatchTexts : patch_check(patch)
    \/ \E patch \in PatchTexts : patch_format(patch)
    \/ \E patch \in PatchTexts : patch_build(patch)
    \/ \E clean_up \in BOOLEAN : patch_new_builder(clean_up)

PatchSpec == PatchInit /\ [][PatchNext]_vars

\* ------------------------------------- two threads calling build (ossfuzz.py)
\* threads that share one builder object and its workspace
ConcCallers == {"t1", "t2"}

\* ConcSpec: the builder is constructed for one sanitizer, or for two that
\* SANITIZER_MAP sends to the same flag, with a mirror registry (so that the
\* image is pulled, re-tagged or built locally), and each thread calls build;
\* the steps of the calls interleave freely, as nothing in build or _build
\* takes a lock
ConcInit ==
    /\ repo = NoRepo
    /\ sanitizers \in {<<"AddressSanitizer">>, <<"AddressSanitizer", "LeakAddressSanitizer">>}
    /\ language = "unread"
    /\ docker_registry = TRUE
    /\ immutable = [w \in {"source", "tooling"} |-> "absent"]
    /\ ws = [k \in Workspaces |-> NoDir]
    /\ docker = FALSE
    /\ call = [c \in ConcCallers |-> Idle]
    /\ nOps = 0
    /\ dbg = DbgOff

ConcNext ==
    \/ \E c \in ConcCallers, patch \in Patches : build(c, patch)
    \/ \E c \in ConcCallers : _build_entry(c)
    \/ \E c \in ConcCallers : _build_reset(c)
    \/ \E c \in ConcCallers : source_path(c)
    \/ \E c \in ConcCallers : _build_copy_source(c)
    \/ \E c \in ConcCallers : fuzz_tooling_path(c)
    \/ \E c \in ConcCallers : _build_copy_tooling(c)
    \/ \E c \in ConcCallers : _build_patch1(c)
    \/ \E c \in ConcCallers : _build_patch2(c)
    \/ \E c \in ConcCallers : _build_image(c)
    \/ \E c \in ConcCallers : _build_image_pull(c)
    \/ \E c \in ConcCallers : _build_image_tag(c)
    \/ \E c \in ConcCallers : _build_image_locally(c)
    \/ \E c \in ConcCallers : _build_fuzzers(c)
    \/ \E c \in ConcCallers : _build_check(c)
    \/ \E c \in ConcCallers : _build_marker(c)

ConcSpec == ConcInit /\ [][ConcNext]_vars

\* ----------------------- reproduction command extraction (ossfuzz.py 236-308)
\* argument tokens on one line of a log
MaxFlags == 3

\* a token is a sequence of pieces; str.startswith on tokens
startswith(token, prefix) ==
    /\ Len(token) >= Len(prefix)
    /\ SubSeq(token, 1, Len(prefix)) = prefix

\* the first tokens of the lines of a log: a binary under /out/, the bare
\* directory, a log tag
Heads == {<<"/out/", "fuzzer">>, <<"/out/">>, <<"INFO:">>}

\* the placeholder input path, libFuzzer flags and a positional argument
ArgTokens ==
    {<<"/testcase">>, <<"corpus">>,
     <<"-", "rss_limit_mb=", "2560">>, <<"-", "malloc_limit_mb=", "2560">>,
     <<"-", "timeout=", "25">>, <<"-", "dict=", "f.dict">>, <<"-", "runs=", "100">>,
     <<"-", "workers=", "2">>, <<"-", "conf=", "f.conf">>}

\* a line: whether it starts with blanks, and its tokens (none: a blank line)
CommandLines ==
    {[indent |-> FALSE, tokens |-> <<h>> \o a] :
        h \in Heads, a \in SeqsUpTo(ArgTokens, MaxFlags)}

ContextLines ==
    {[indent |-> i, tokens |-> t] :
        i \in BOOLEAN,
        t \in {<<>>, <<<<"/out/", "fuzzer">>>>, <<<<"INFO:">>, <<"Seed:">>>>,
               <<<<"/out/", "fuzzer">>, <<"-", "runs=", "100">>, <<"/testcase">>>>}}

\* the logs given to the extraction, free of terminal escape sequences (as
\* remove_ansi_escape leaves them): the lines, and whether the last one ends
\* with a newline
Logs ==
    {[lines |-> <<l>>, nl |-> TRUE] : l \in CommandLines}
    \cup {[lines |-> q, nl |-> b] : q \in SeqsUpTo(ContextLines, 2) \ {<<>>}, b \in BOOLEAN}
    \cup {[lines |-> <<x, l>>, nl |-> TRUE] :
             x \in ContextLines,
             l \in {m \in CommandLines : Len(m.tokens) <= 2}}

\* /out/[^\s]+ at the start of a line
BinaryAtStart(line) ==
    /\ ~line.indent
    /\ Len(line.tokens) >= 1
    /\ startswith(line.tokens[1], <<"/out/">>)
    /\ Len(line.tokens[1]) > 1

\* the lines after line i that hold a token
TokenLinesAfter(content, i) ==
    {j \in (i + 1)..Len(content.lines) : content.lines[j].tokens # <<>>}

\* re.search(r"^(/out/[^\s]+)\s+(.*)$", .., re.MULTILINE) tried at line i:
\* \s+ takes all the white space after the binary path, newlines, blank lines
\* and the indentation of the next line included, and (.*) is the rest of the
\* line where the white space ends (empty at the end of the text)
MatchAt(content, i) ==
    /\ BinaryAtStart(content.lines[i])
    /\ \/ Len(content.lines[i].tokens) > 1
       \/ i < Len(content.lines)
       \/ content.nl

\* group(2).split() of the match at line i
MatchArgs(content, i) ==
    IF Len(content.lines[i].tokens) > 1
    THEN Tail(content.lines[i].tokens)
    ELSE IF TokenLinesAfter(content, i) = {}
         THEN <<>>
         ELSE LET j == CHOOSE j \in TokenLinesAfter(content, i) :
                          \A m \in TokenLinesAfter(content, i) : j <= m
              IN  content.lines[j].tokens

\* the loop over args_tokens (lines 264-292): whether a token is appended to
\* kept_args; a token that no branch takes falls out of the loop body unkept
KeptArg(token) ==
    IF token = <<"/testcase">> THEN FALSE
    ELSE IF ~startswith(token, <<"-">>) THEN TRUE
    ELSE IF startswith(token, <<"-", "rss_limit_mb=">>) THEN TRUE
    ELSE IF startswith(token, <<"-", "timeout=">>) THEN FALSE
    ELSE IF \/ startswith(token, <<"-", "dict=">>)
            \/ startswith(token, <<"-", "conf=">>)
            \/ startswith(token, <<"-", "data_flow_trace=">>) THEN FALSE
    ELSE IF \/ startswith(token, <<"-", "runs=">>)
            \/ startswith(token, <<"-", "jobs=">>)
            \/ startswith(token, <<"-", "workers=">>) THEN FALSE
    ELSE IF \/ startswith(token, <<"-", "artifact_prefix=">>)
            \/ startswith(token, <<"-", "print_final_stats">>) THEN FALSE
    ELSE FALSE

\* _extract_repro_command on the lines of a log: <<>> for the empty string,
\* else the fields of the text returned: its title, the binary, the PoC file
\* (or Unknown) and the tokens of the full command
_extract_repro_command_lines(content) ==
    LET hits == {i \in 1..Len(content.lines) : MatchAt(content, i)}
    IN  IF hits = {}
        THEN <<>>
        ELSE LET i == CHOOSE i \in hits : \A m \in hits : i <= m
                 binary_path == content.lines[i].tokens[1]
                 args_tokens == MatchArgs(content, i)
                 has_poc == \E n \in 1..Len(args_tokens) : args_tokens[n] = <<"/testcase">>
                 kept_args == SelectSeq(args_tokens, KeptArg)
                 cmd_parts == <<binary_path>> \o kept_args
                                \o (IF has_poc THEN <<<<"/testcase">>>> ELSE <<>>)
             IN  <<<<"Reproduction Command Details:">>, binary_path,
                   IF has_poc THEN <<"/testcase">> ELSE <<"Unknown">>, cmd_parts>>

\* one call of _extract_repro_command on the captured stdout of a reproduction
ExtractInit ==
    /\ repo = NoRepo
    /\ sanitizers = <<"AddressSanitizer">>
    /\ language = "unread"
    /\ docker_registry = FALSE
    /\ docker = FALSE
    /\ immutable = [w \in {"source", "tooling"} |-> "absent"]
    /\ ws = [k \in Workspaces |-> NoDir]
    /\ call = [c \in Callers |-> Idle]
    /\ nOps = 0
    /\ \E content \in Logs :
         dbg = [pc |-> "ex_call", content |-> content, run_command |-> <<>>]

extract_repro_command ==
    /\ dbg.pc = "ex_call"
    /\ dbg' = [dbg EXCEPT !.pc = "ex_done",
                          !.run_command = _extract_repro_command_lines(dbg.content)]
    /\ UNCHANGED <<cfgVars, language, immutable, ws, docker, call, nOps>>

ExtractNext == extract_repro_command

ExtractSpec == ExtractInit /\ [][ExtractNext]_vars

\* ------------------- program and argument resolution (default.py 126-144)
\* the tool's `program` argument as a sequence of pieces of the path string:
\* under /out, /out twice, a name that goes on after "/out", /out further in,
\* a relative name, /out itself
Programs ==
    {<<"/out", "/fuzzer">>, <<"/out", "/out", "/fuzzer">>, <<"/out", "side/fuzzer">>,
     <<"/usr", "/out", "/fuzzer">>, <<"fuzzer">>, <<"/out">>}

\* the tool's `args`
ProgramArgs == SeqsUpTo({<<"/testcase">>, <<"/testcase", ".bak">>, <<"-v">>}, MaxArgs)

\* task.pocs with up to two proofs of concept
TaskPocs == PocLists \cup {<<"/tmp/poc", "/tmp/poc2">>}

\* OSSFuzzBuilder.get_develop_debug_paths()["out_root_map"]: "/out" and the
\* build-output directory of the unpatched build of the first sanitizer
out_root_map ==
    <<"/out", "/ws/" \o hash_patch(sanitizers[1], "") \o "/oss-fuzz/build/out/proj">>

\* str.replace(old, new, count) on a string given by its pieces (count = -1:
\* every occurrence)
RECURSIVE str_replace(_, _, _, _)
str_replace(str, old, new, count) ==
    IF str = <<>> \/ count = 0 THEN str
    ELSE IF Head(str) = old
         THEN <<new>> \o str_replace(Tail(str), old, new, count - 1)
         ELSE <<Head(str)>> \o str_replace(Tail(str), old, new, count)

\* a mutant of resolve_program: every occurrence of the prefix is replaced
resolve_program_replace_all(prog, map) ==
    IF startswith(prog, <<map[1]>>)
    THEN str_replace(prog, map[1], map[2], -1)
    ELSE prog

\* default.py lines 136-140: develop_program
resolve_program(prog, map) ==
    IF startswith(prog, <<map[1]>>)
    THEN str_replace(prog, map[1], map[2], 1)
    ELSE prog

\* one call of the tool up to the creation of the session (lines 126-144)
ResolveInit ==
    /\ repo = NoRepo
    /\ sanitizers \in SanitizerConfigs
    /\ language = "unread"
    /\ docker_registry = FALSE
    /\ docker = FALSE
    /\ immutable = [w \in {"source", "tooling"} |-> "absent"]
    /\ ws = [k \in Workspaces |-> NoDir]
    /\ call = [c \in Callers |-> Idle]
    /\ nOps = 0
    /\ \E prog \in Programs, args \in ProgramArgs, pocs \in TaskPocs :
         dbg = [pc |-> "rs_call", program |-> prog, args |-> args, pocs |-> pocs,
                develop_program |-> <<>>, develop_args |-> <<>>, result |-> Pending]

\* get_develop_debug_paths raises KeyError when the first sanitizer has no
\* build flag (hash_patch); otherwise the program and each argument are resolved
diagnose_resolve ==
    /\ dbg.pc = "rs_call"
    /\ dbg' = IF sanitizers[1] \notin DOMAIN SANITIZER_MAP
              THEN [dbg EXCEPT !.pc = "rs_done", !.result = Raise("KeyError")]
              ELSE [dbg EXCEPT !.pc = "rs_done",
                       !.develop_program = resolve_program(dbg.program, out_root_map),
                       !.develop_args = [i \in 1..Len(dbg.args) |->
                                            resolve_poc_path(dbg.args[i], dbg.pocs)],
                       !.result = ReturnNone]
    /\ UNCHANGED <<cfgVars, language, immutable, ws, docker, call, nOps>>

ResolveNext == diagnose_resolve

ResolveSpec == ResolveInit /\ [][ResolveNext]_vars

\* ===================================================================== properties
\* the positions of a _build call between its marker check and its return
BuildPcs ==
    {"b_reset", "b_immsrc", "b_cpsrc", "b_immtool", "b_cptool", "b_patch1", "b_patch2",
     "i_entry", "i_pull", "i_tag", "i_local", "b_build", "b_check", "b_marker"}

\* the stage results a workspace holds when a _build call that reset it is at pc
StagesBefore(pc) ==
    CASE pc \in {"b_immsrc", "b_cpsrc"} -> {}
      [] pc \in {"b_immtool", "b_cptool"} -> {"source"}
      [] pc = "b_patch1" -> {"source", "tooling"}
      [] pc = "b_patch2" -> {"source", "tooling", "patch1"}
      [] pc \in {"i_entry", "i_pull", "i_tag", "i_local"} ->
             {"source", "tooling", "patch1", "patch2"}
      [] pc = "b_build" -> {"source", "tooling", "patch1", "patch2", "image"}
      [] pc = "b_check" -> {"source", "tooling", "patch1", "patch2", "image", "build"}
      [] pc = "b_marker" -> StageSet

HasMarker(k) == ws[k].marker # <<>>

\* C1: a _build call that finds the completion marker of its key returns at
\* once: it is never at a build stage (no copy, patch, image, build or check
\* subprocess), and the workspace with its marker (text and timestamp) stays as
\* the call found it; no _build call is at a build stage of a key whose marker
\* exists, so the build of a key runs once while its marker exists.
C1_IdempotentBuild ==
    \A c \in Callers :
      /\ call[c].entryCached =>
           /\ call[c].pc \notin BuildPcs
           /\ ws[call[c].key] = call[c].snap
      /\ call[c].pc \in BuildPcs => ~HasMarker(call[c].key)

\* C1 witness: a build call has returned after finding the marker an earlier
\* call wrote
C1_Witness ==
    \E c \in Callers :
      /\ call[c].pc = "done"
      /\ call[c].op = "build"
      /\ call[c].result = ReturnNone
      /\ call[c].entryCached
      /\ call[c].snap.marker # <<>>
      /\ call[c].snap.marker[1].mtime < nOps

\* C2 (as claimed): the _build calls of one build()/replay() call for distinct
\* sanitizer kinds use distinct workspaces and markers.
C2_KeySeparationAllKinds ==
    \A c \in Callers : \A i, j \in 1..Len(call[c].keys) :
      sanitizers[i] # sanitizers[j] => call[c].keys[i] # call[c].keys[j]

\* C2 (amended): workspaces and markers are distinct for sanitizer kinds whose
\* build-system flags (SANITIZER_MAP) differ, and shared by kinds with the same
\* flag, for the _build calls of one call and for every pair of kinds and patch.
C2_KeySeparationByFlag ==
    /\ \A c \in Callers : \A i, j \in 1..Len(call[c].keys) :
         (SANITIZER_MAP[sanitizers[i]] # SANITIZER_MAP[sanitizers[j]])
            <=> (call[c].keys[i] # call[c].keys[j])
    /\ \A a, b \in DOMAIN SANITIZER_MAP : \A x \in Patches :
         (SANITIZER_MAP[a] # SANITIZER_MAP[b])
            <=> (build_finish_indicator(a, x) # build_finish_indicator(b, x))

\* C2 witness: one call has run _build for two kinds with different flags
C2_Witness ==
    \E c \in Callers :
      /\ Len(call[c].keys) = 2
      /\ SANITIZER_MAP[sanitizers[1]] # SANITIZER_MAP[sanitizers[2]]
      /\ HasMarker(call[c].keys[1]) /\ HasMarker(call[c].keys[2])

\* C3: a completion marker exists only in a workspace that holds the results of
\* all stages (source and tooling copy, both patch passes, image, build, check)
\* run since the workspace was last reset.
C3_MarkerOnlyAfterSuccess ==
    \A k \in Workspaces :
      HasMarker(k) => ws[k].exists /\ ws[k].stages = StageSet

\* C3 witness: a marker exists while another build of a different key has failed
C3_Witness ==
    \E k \in Workspaces, c \in Callers :
      /\ HasMarker(k)
      /\ call[c].pc = "done" /\ call[c].result.kind = "raise"
      /\ call[c].at \in BuildPcs /\ call[c].key # k

Failed(c) == call[c].pc = "done" /\ call[c].streams # <<>>

\* the matchers of the chain for the language read by the handler
ChainKinds(c) ==
    {call[c].visited[Len(call[c].visited)], "LibFuzzer"}
        \cup (IF language = "JVM" THEN {"JavaNativeSanitizer"} ELSE {})

\* no matcher of the chain accepts the captured stdout or stderr
NoMatcherAccepts(c) ==
    \A m \in ChainKinds(c) :
      m \notin call[c].streams[1].stdout /\ m \notin call[c].streams[1].stderr

\* the result is an unknown report wrapping both captured streams as they were
UnknownVerbatim(c) ==
    /\ call[c].result.kind = "unknown"
    /\ call[c].result.stdout = call[c].streams[1].stdout
    /\ call[c].result.stderr = call[c].streams[1].stderr

\* C5 (as claimed): whenever the reproduction fails and no matcher of the chain
\* accepts stdout or stderr, replay returns an unknown report wrapping the raw
\* stdout and stderr (never None, never an exception).
C5_FallbackAlways ==
    \A c \in Callers : (Failed(c) /\ NoMatcherAccepts(c)) => UnknownVerbatim(c)

\* C5 (amended): whenever the reproduction fails and no matcher of the chain
\* accepts stdout or stderr, replay never returns None: it returns an unknown
\* report wrapping the raw stdout and stderr, unless a stream holds the
\* container daemon's error line, in which case DockerUnavailableError is raised.
C5_FallbackUnlessDaemonError ==
    \A c \in Callers :
      (Failed(c) /\ NoMatcherAccepts(c)) =>
         IF DockerEvidence(call[c].streams[1])
         THEN call[c].result = Raise("DockerUnavailableError")
         ELSE UnknownVerbatim(c)

\* C5 witness: a failing reproduction with non-empty unmatched output came back
\* as an unknown report
C5_Witness ==
    \E c \in Callers :
      /\ Failed(c) /\ NoMatcherAccepts(c)
      /\ call[c].result.kind = "unknown"
      /\ call[c].result.stdout = {"cmdline"}
      /\ call[c].result.stderr # {}

\* C6: each _replay of one sanitizer returns None exactly when its reproduction
\* subprocess exited with 0; a failing reproduction gives a report (of a
\* matcher, or unknown) or leaves by an exception.
C6_NoneIffExitZero ==
    \A c \in Callers :
      LET cr == call[c]
      IN  /\ \A i \in 1..Len(cr.outcomes) :
               /\ i <= Len(cr.exits)
               /\ (cr.outcomes[i] = ReturnNone) <=> cr.exits[i]
               /\ ~cr.exits[i] => cr.outcomes[i].kind \in {"report", "unknown"}
          /\ Len(cr.exits) <= Len(cr.outcomes) + 1
          /\ Len(cr.exits) > Len(cr.outcomes) =>
               /\ ~cr.exits[Len(cr.exits)]
               /\ cr.pc = "done"
               /\ cr.result.kind = "raise"

\* C6 witness: one replay call whose first reproduction exited with 0 (None) and
\* whose second failed and gave a report
C6_Witness ==
    \E c \in Callers :
      /\ call[c].pc = "done"
      /\ call[c].exits = <<TRUE, FALSE>>
      /\ call[c].outcomes[1] = ReturnNone
      /\ call[c].outcomes[2].kind = "report"

\* the (stream, matcher) pairs tried follow `chain` over stdout, then over stderr
TriedFollows(c, chain) ==
    \A i \in 1..Len(call[c].tried) :
      /\ i <= 2 * Len(chain)
      /\ call[c].tried[i].sanitizer = chain[((i - 1) % Len(chain)) + 1]
      /\ call[c].tried[i].stream = IF i <= Len(chain) THEN "stdout" ELSE "stderr"

Requested(c) == call[c].visited[Len(call[c].visited)]

\* C7 (as claimed): on a failing reproduction the matchers are tried in the
\* order requested kind, engine-level matcher, and for managed-runtime projects
\* the bridge matcher after that.
C7_EngineBeforeBridge ==
    \A c \in Callers :
      Failed(c) =>
        TriedFollows(c, IF language = "JVM"
                        THEN <<Requested(c), "LibFuzzer", "JavaNativeSanitizer">>
                        ELSE <<Requested(c), "LibFuzzer">>)

\* C7 (amended): on a failing reproduction the matchers are tried, on stdout and
\* then on stderr, in the order requested kind, then for managed-runtime
\* projects only the bridge matcher, then the engine-level matcher; for native
\* projects the bridge matcher is never tried.
C7_BridgeBeforeEngine ==
    \A c \in Callers :
      Failed(c) =>
        /\ TriedFollows(c, IF language = "JVM"
                           THEN <<Requested(c), "JavaNativeSanitizer", "LibFuzzer">>
                           ELSE <<Requested(c), "LibFuzzer">>)
        /\ language = "CLIKE" =>
             \A i \in 1..Len(call[c].tried) :
               call[c].tried[i].sanitizer # "JavaNativeSanitizer"

\* C7 witness: in a managed-runtime project the engine-level matcher accepted
\* stdout after the requested kind and the bridge matcher had been tried
C7_Witness ==
    \E c \in Callers :
      /\ Failed(c)
      /\ language = "JVM"
      /\ Len(call[c].tried) = 3
      /\ call[c].result.kind = "report"
      /\ call[c].result.sanitizer = "LibFuzzer"

\* C8: replay() visits the configured kinds in configured order; a report ends
\* it: the report returned is that of the first kind whose _replay gave one, all
\* kinds before it gave None, and no build or reproduction was run for a later
\* kind; None is returned only when every configured kind's _replay gave None.
C8_FirstReportWins ==
    \A c \in Callers :
      LET cr == call[c]
          n == Len(cr.visited)
      IN  cr.op = "replay" =>
            /\ n <= Len(sanitizers)
            /\ cr.visited = SubSeq(sanitizers, 1, n)
            /\ Len(cr.keys) <= n /\ Len(cr.exits) <= n /\ Len(cr.outcomes) <= n
            /\ (cr.pc = "done" /\ cr.result.kind \in {"report", "unknown"}) =>
                 /\ Len(cr.outcomes) = n
                 /\ cr.outcomes[n] = cr.result
                 /\ \A i \in 1..(n - 1) : cr.outcomes[i] = ReturnNone
            /\ (cr.pc = "done" /\ cr.result = ReturnNone) =>
                 /\ cr.visited = sanitizers
                 /\ Len(cr.outcomes) = n
                 /\ \A i \in 1..n : cr.outcomes[i] = ReturnNone

\* C8 witness: with two kinds configured, the first kind's report was returned
\* and nothing was built or run for the second kind
C8_Witness ==
    \E c \in Callers :
      /\ call[c].op = "replay" /\ call[c].pc = "done"
      /\ Len(sanitizers) = 2
      /\ call[c].result.kind = "report"
      /\ Len(call[c].visited) = 1 /\ Len(call[c].keys) = 1 /\ Len(call[c].exits) = 1

\* the loop of the tool run has been left in the normal way (by its test or by
\* break) and the run has not been left by an exception since
LoopLeft ==
    \/ dbg.pc \in {"d_stop", "d_sum1", "d_sum2"}
    \/ dbg.pc = "returned" /\ dbg.result = "summary"

\* at most max_steps steps; while no quit was proposed every started step ran
\* its commands and its next action, and the loop is left after step max_steps
BoundedSteps ==
    /\ dbg.step <= max_steps
    /\ dbg.acts <= dbg.step
    /\ dbg.llm <= max_steps + 1
    /\ (LoopLeft /\ ~dbg.quitSeen) =>
         /\ dbg.step = max_steps
         /\ dbg.acts = max_steps

\* C9: with a policy that never proposes quit as next action the diagnosis loop
\* is left after exactly 10 steps, each having run its commands and one next
\* action; no 11th step is started; and every run of the tool comes to an end.
C9_BoundedLoop == []BoundedSteps /\ <>(dbg.pc \in {"returned", "raised"})

\* C9 witness: a run has returned its summary after 10 steps without a quit
C9_Witness ==
    /\ dbg.pc = "returned" /\ dbg.result = "summary"
    /\ ~dbg.quitSeen
    /\ dbg.step = max_steps /\ dbg.acts = max_steps

\* C10 (as claimed): whenever a run of the tool has ended, by return or by an
\* exception, stop() has been called on its session exactly once.
C10_StopExactlyOnce ==
    dbg.pc \in {"returned", "raised"} => dbg.s.stops = 1

\* the first token is the run directive
IsRun(tokens) == tokens # <<>> /\ tokens[1] \in {<<"r">>, <<"run">>}

\* the tokens after the directive, the binary path (original or resolved) removed
ArgsNoBinary(tokens) ==
    IF Len(tokens) > 1 /\ tokens[2] \in {<<program>>, <<develop_program>>}
    THEN SubSeq(tokens, 3, Len(tokens))
    ELSE SubSeq(tokens, 2, Len(tokens))

\* the placeholder input path replaced by the path of the proof of concept
PocToken(token, pocs) == IF token = <<"/testcase">> THEN <<pocs[1]>> ELSE token

\* the command the claim expects for a raw command
ClaimedCommand(tokens, pocs) ==
    IF IsRun(tokens)
    THEN <<tokens[1]>> \o
         [i \in 1..Len(ArgsNoBinary(tokens)) |-> PocToken(ArgsNoBinary(tokens)[i], pocs)]
    ELSE tokens

\* C11 (as claimed): with a proof of concept, the command sent for a run
\* directive whose second token is the original or resolved binary path is the
\* directive followed by the remaining tokens, every placeholder replaced by
\* the path of the proof of concept; a command that is no run directive is
\* sent with the tokens it had.
C11_RunRewriteOnly ==
    (dbg.pc = "rw_sent" /\ dbg.pocs # <<>>) =>
        LET raw == dbg.raw_cmd
        IN  (\/ ~IsRun(raw)
             \/ Len(raw) > 1 /\ raw[2] \in {<<program>>, <<develop_program>>})
               => dbg.final_cmd = ClaimedCommand(raw, dbg.pocs)

\* a second token that ends with "/" + the binary's file name
BinaryLike(tokens) ==
    /\ Len(tokens) > 1
    /\ tokens[2][Len(tokens[2])] \in EndsWithProgramName

\* C11 (amended): a run directive ("r" or "run") loses a second token that is
\* the original or resolved binary path or ends with "/" + the binary's file
\* name, and each remaining placeholder token becomes the path of the first
\* proof of concept (it stays when there is none); other commands keep their
\* tokens; after that only tokens holding ":" + digit differ in what is sent.
\* `run <binary-path> /testcase` is sent as `run <poc path>`.
C11_RunRewriteThenPathLine ==
    dbg.pc = "rw_sent" =>
      LET raw == dbg.raw_cmd
          drop == IF BinaryLike(raw) THEN 1 ELSE 0
      IN  /\ IsRun(raw) =>
                /\ Len(dbg.fixed) = Len(raw) - drop
                /\ dbg.fixed[1] = raw[1]
                /\ \A i \in 2..Len(dbg.fixed) :
                     dbg.fixed[i] =
                        IF raw[i + drop] = <<"/testcase">> /\ dbg.pocs # <<>>
                        THEN <<dbg.pocs[1]>> ELSE raw[i + drop]
          /\ ~IsRun(raw) => dbg.fixed = raw
          /\ Len(dbg.final_cmd) = Len(dbg.fixed)
          /\ \A i \in 1..Len(dbg.fixed) :
               ColonDigit(dbg.fixed[i]) = {} => dbg.final_cmd[i] = dbg.fixed[i]
          /\ (raw = <<<<"run">>, <<program>>, <<"/testcase">>>> /\ dbg.pocs # <<>>)
                => dbg.final_cmd = <<<<"run">>, <<dbg.pocs[1]>>>>

\* C11 witness: `run /out/fuzzer /testcase` was sent as `run /tmp/poc`
C11_Witness ==
    /\ dbg.pc = "rw_sent"
    /\ dbg.raw_cmd = <<<<"run">>, <<"/out/fuzzer">>, <<"/testcase">>>>
    /\ dbg.final_cmd = <<<<"run">>, <<"/tmp/poc">>>>

\* C12: each token of the command after the run rewriting that has the shape
\* path:line (the longest path before a ":" followed by digits) is sent with
\* the path replaced by its best-guess relative path when there is a guess, the
\* digits of the line unchanged, and what follows them kept; without a guess,
\* and for tokens of another shape, the token is sent unchanged.
C12_PathLineRewrite ==
    dbg.pc = "rw_sent" =>
      /\ Len(dbg.final_cmd) = Len(dbg.fixed)
      /\ \A i \in 1..Len(dbg.fixed) :
           LET t == dbg.fixed[i]
               f == dbg.final_cmd[i]
           IN  IF ColonDigit(t) = {}
               THEN f = t
               ELSE LET m == PathLineMatch(t)
                        g == guess_relpath(m.path)
                    IN  /\ m.line # <<>> /\ \A k \in 1..Len(m.line) : m.line[k] \in Digits
                        /\ t = m.path \o <<":">> \o m.line \o m.tail
                        /\ IF g = None THEN f = t
                                       ELSE f = g \o <<":">> \o m.line \o m.tail

\* C12 witness: `break foo.c:42` was sent as `break src/foo.c:42`
C12_Witness ==
    /\ dbg.pc = "rw_sent"
    /\ dbg.raw_cmd = <<<<"break">>, <<"foo.c", ":", "4", "2">>>>
    /\ dbg.final_cmd = <<<<"break">>, <<"src/foo.c", ":", "4", "2">>>>

\* the session is running: it holds a child that is alive
Running(s) == s.child = "alive"

NotRunningTexts == {"Debugger is not running. Please start it first.",
                    "Debugger not running."}

StartedTexts == {"Debugger started successfully.", "Debugger started successfully. Failed"}

\* the last call was a command (given directly, or by set_source_map, or the
\* set-args command of start) that the child answered with end-of-stream
EndOfStream(op) ==
    \/ op.name \in {"run_command", "set_source_map"} /\ op.sent /\ op.reply = "eof"
    \/ op.name = "start" /\ op.out \in StartedTexts /\ op.hasArgs /\ op.reply = "eof"

C14_OneChild ==
    /\ dbg.s.procs <= 1
    /\ dbg.s.procs = 1 <=> dbg.s.child = "alive"
    /\ (dbg.op.name = "start" /\ Running(dbg.op.was) /\ dbg.op.found # "none") =>
          dbg.s.stops > dbg.op.was.stops

\* C14 witness: a start on a running session has left exactly one live child
C14_Witness ==
    /\ dbg.op.name = "start"
    /\ Running(dbg.op.was)
    /\ Running(dbg.s)
    /\ dbg.s.procs = 1
    /\ dbg.s.stops = dbg.op.was.stops + 1

\* the last call was a run_command whose command was sent and timed out, or was
\* answered by end-of-stream
ProtocolError(op) ==
    op.name = "run_command" /\ op.sent /\ op.reply \in {"timeout", "eof"}

ProtocolErrorTexts == {"Command timed out.", "Debugger session ended unexpectedly (EOF)."}

\* C15 (as claimed): after a run_command that hit a command timeout or an
\* end-of-stream the session holds no child and the error came back as text.
C15_ProtocolErrorStops ==
    ProtocolError(dbg.op) =>
        dbg.s.child = "none" /\ dbg.op.out \in ProtocolErrorTexts

\* C15 (amended): a run_command that hits end-of-stream stops the session (no
\* child remains); one that hits a command timeout leaves the session running
\* with its child; in both cases the error comes back as text.
C15_OnlyEndOfStreamStops ==
    ProtocolError(dbg.op) =>
        /\ dbg.op.out \in ProtocolErrorTexts
        /\ dbg.op.reply = "eof" =>
              dbg.s.child = "none" /\ dbg.s.stops = dbg.op.was.stops + 1
        /\ dbg.op.reply = "timeout" =>
              dbg.s = dbg.op.was /\ Running(dbg.s)

\* C15 witness: a command timed out and the session is still running
C15_Witness ==
    /\ ProtocolError(dbg.op)
    /\ dbg.op.reply = "timeout"
    /\ dbg.op.out = "Command timed out."
    /\ Running(dbg.s)

\* C16: on a failing reproduction DockerUnavailableError is raised exactly when
\* no matcher of the chain accepts either stream and a stream holds the daemon's
\* error text; then no report is recorded for the kind, replay() is left by the
\* error and no later kind is visited; when a matcher accepts, its report is
\* returned whether or not the daemon's text is present.
C16_DaemonErrorRaised ==
    \A c \in Callers :
      Failed(c) =>
        LET cr == call[c]
            raised == cr.result = Raise("DockerUnavailableError")
        IN  /\ raised <=> (NoMatcherAccepts(c) /\ DockerEvidence(cr.streams[1]))
            /\ raised =>
                 /\ Len(cr.outcomes) = Len(cr.visited) - 1
                 /\ \A i \in 1..Len(cr.outcomes) : cr.outcomes[i] = ReturnNone
                 /\ cr.at = "r_reproduce"
            /\ ~NoMatcherAccepts(c) =>
                 /\ cr.result.kind = "report"
                 /\ cr.result.sanitizer \in ChainKinds(c)

\* C16 witness: with two kinds configured, the first kind's reproduction failed
\* with the daemon's text and nothing else; the error left replay()
C16_Witness ==
    \E c \in Callers :
      /\ Failed(c)
      /\ Len(sanitizers) = 2 /\ Len(call[c].visited) = 1
      /\ DockerEvidence(call[c].streams[1])
      /\ call[c].result = Raise("DockerUnavailableError")

\* the text _extract_repro_command builds from a command line
ReproText == "Reproduction Command Details"

\* C17 (as claimed): a matcher report returned for a failing run whose stdout or
\* stderr holds the reproduction command line has purified content that
\* starts with the reproduction command text, once.
C17_PrefixFromAnyStream ==
    \A c \in Callers :
      (/\ Failed(c)
       /\ call[c].result.kind = "report"
       /\ ("cmdline" \in call[c].streams[1].stdout \/ "cmdline" \in call[c].streams[1].stderr))
         => call[c].result.purified_content = <<ReproText, call[c].result.content>>

\* C17 (amended): a matcher report returned for a failing run has purified
\* content that starts with the reproduction command text, once, exactly when
\* the captured stdout holds the command line, whichever stream the report was
\* parsed from; a command line in stderr alone gives no prefix.
C17_PrefixFromStdout ==
    \A c \in Callers :
      (Failed(c) /\ call[c].result.kind = "report") =>
         LET r == call[c].result
         IN  /\ r.content \in {call[c].streams[1].stdout, call[c].streams[1].stderr}
             /\ r.sanitizer \in r.content
             /\ r.purified_content =
                  IF "cmdline" \in call[c].streams[1].stdout
                  THEN <<ReproText, r.content>>
                  ELSE <<r.content>>

\* C17 witness: a report parsed from stderr carries the command found in stdout
C17_Witness ==
    \E c \in Callers :
      /\ Failed(c)
      /\ call[c].result.kind = "report"
      /\ call[c].streams[1].stdout = {"cmdline"}
      /\ call[c].result.content = call[c].streams[1].stderr
      /\ call[c].result.purified_content[1] = ReproText

\* C18 (as stated): the empty patch is accepted by every operation that takes
\* a patch: _build applies it and leaves the source tree unmodified, and
\* check_patch does not raise on it
C18_EmptyPatchValidEverywhere ==
    /\ (repo.op.name = "_build" /\ repo.op.patch = "") =>
           (repo.op.result = "ok" /\ repo.op.tree = Pristine)
    /\ (repo.op.name = "check_patch" /\ repo.op.patch = "") => repo.op.result = "ok"

\* C18 (amended): _build with the empty patch passes both patch runs and leaves
\* the source tree unmodified, format_patch returns a diff for it, but
\* check_patch of the empty patch always raises BuilderProcessError
C18_EmptyPatchBuildsButFailsCheck ==
    /\ (repo.op.name = "_build" /\ repo.op.patch = "") =>
           (repo.op.result = "ok" /\ repo.op.pass = 0 /\ repo.op.tree = Pristine)
    /\ (repo.op.name = "format_patch" /\ repo.op.patch = "") => repo.op.result = "diff"
    /\ (repo.op.name = "check_patch" /\ repo.op.patch = "") =>
           repo.op.result = "BuilderProcessError"

\* the empty patch has been checked on a checkout that took a build before
C18_Witness ==
    /\ repo.op.name = "check_patch"
    /\ repo.op.patch = ""
    /\ repo.op.result = "BuilderProcessError"
    /\ repo.tree = Pristine
    /\ repo.n > 1

\* C19: whatever calls came before, check_patch of a patch ends as it does on
\* a fresh checkout: without exception if the patch applies to the original
\* source, with BuilderProcessError if it does not
C19_CheckAsOnFreshCheckout ==
    repo.op.name = "check_patch" =>
        repo.op.result = check_patch(NoRepo, repo.op.patch).op.result

\* thread c is between the marker check and the return of _build for key k
InBuildSection(c, k) == call[c].pc \in BuildPcs /\ call[c].key = k

\* C20: nothing excludes two build calls for one key from each other: a call
\* at the marker check of a key whose marker is absent can always step into
\* the build section, also while another call is inside it for the same key;
\* and no call is ever inside the build section of a key it found marked
C20_NoMutualExclusion ==
    \A c \in DOMAIN call :
        /\ (call[c].pc = "b_entry" /\ CurSan(c) \in DOMAIN SANITIZER_MAP
              /\ ~HasMarker(hash_patch(CurSan(c), call[c].patch)))
             => ENABLED (_build_entry(c) /\ call'[c].pc = "b_reset")
        /\ call[c].pc \in BuildPcs => ~call[c].entryCached

\* both threads passed the marker check of the same key; t2 removed the
\* workspace after t1 had built in it, and t1 then wrote the marker and
\* returned: the marker is present, the workspace holds no completed build,
\* and t2 is still building in it
C20_Witness ==
    /\ call["t1"].pc = "done" /\ call["t1"].result = ReturnNone
    /\ ~call["t1"].entryCached
    /\ InBuildSection("t2", call["t1"].key)
    /\ HasMarker(call["t1"].key)
    /\ ws[call["t1"].key].stages # StageSet

\* the (sanitizer, patch) pair a thread's _build call is for
PairOf(c) == <<CurSan(c), call[c].patch>>

\* C21 (as stated): two build calls that are inside the build section for
\* different (sanitizer, patch) pairs work in different workspace directories
C21_DistinctPairsNoContention ==
    \A c, d \in DOMAIN call :
        (call[c].pc \in BuildPcs /\ call[d].pc \in BuildPcs /\ PairOf(c) # PairOf(d))
            => call[c].key # call[d].key

\* C21 (amended): every step changes only the workspace directory and marker
\* of the key of the call that takes it, and the marker check of a call looks
\* at the marker of its own key only; so calls whose keys (patch digest and
\* sanitizer flag) differ never touch each other's directory or marker
C21_DistinctKeysNoContention ==
    [][ /\ \A k \in DOMAIN ws :
             ws'[k] # ws[k] =>
                 \E c \in DOMAIN call :
                     /\ call'[c] # call[c]
                     /\ call[c].pc \in BuildPcs
                     /\ call[c].key = k
                     /\ call[c].key = hash_patch(CurSan(c), call[c].patch)
        /\ \A c \in DOMAIN call :
             (call[c].pc = "b_entry" /\ call'[c].pc # "b_entry"
                 /\ call'[c].result.kind # "raise") =>
                 /\ call'[c].key = hash_patch(CurSan(c), call[c].patch)
                 /\ call'[c].entryCached = HasMarker(call'[c].key)
                 /\ call'[c].snap \in {NoDir, ws[call'[c].key]}
      ]_vars

\* two calls for different keys are inside the build section at once, each
\* with stage results in its own directory
C21_Witness ==
    /\ call["t1"].pc \in BuildPcs /\ call["t2"].pc \in BuildPcs
    /\ call["t1"].key # call["t2"].key
    /\ ws[call["t1"].key].stages # {}
    /\ ws[call["t2"].key].stages # {}

\* the session object has been stopped: stop() ran (called, or through a quit
\* command or end-of-stream) and dropped the child
Stopped(s) == s.stops > 0 /\ s.child = "none"

\* C22 (as stated): once the session object is stopped, no call brings it
\* back to running
C22_StoppedIsTerminal ==
    [][(dbg.pc = "session" /\ Stopped(dbg.s)) => ~Running(dbg'.s)]_vars

\* C22 (amended): run_command, set_source_map and stop leave a stopped
\* session stopped (the first two answer with their not-running text and
\* send nothing); only a start call that finds a debugger and gets its first
\* prompt brings the object back to running, with a newly spawned child
C22_StoppedUntilRestart ==
    [][(dbg.pc = "session" /\ Stopped(dbg.s)) =>
          /\ Running(dbg'.s) =>
                /\ dbg'.op.name = "start"
                /\ dbg'.op.found # "none"
                /\ dbg'.op.boot = "prompt"
                /\ dbg'.s.procs = dbg.s.procs + 1
          /\ dbg'.op.name \in {"run_command", "set_source_map"} =>
                /\ dbg'.op.out \in NotRunningTexts
                /\ ~dbg'.op.sent
                /\ dbg'.s = dbg.s
          /\ dbg'.op.name = "stop" => Stopped(dbg'.s) /\ dbg'.s.procs = dbg.s.procs
    ]_vars

\* a session that was started, then stopped, is running again after a second start
C22_Witness ==
    /\ dbg.pc = "session"
    /\ dbg.op.name = "start"
    /\ Stopped(dbg.op.was)
    /\ dbg.op.was.debugger # "none"
    /\ Running(dbg.s)

\* the reproduction of the call ran into the timeout
TimedOut(c) == Failed(c) /\ call[c].streams[1].how = "timeout"

Accepts(run, pair) == ReportClassParse(StreamOf(run, pair.stream), pair.sanitizer)

\* C24: the pairs handed to parse_sanitizer_report are stdout with each
\* matcher in chain order, then stderr with each matcher in chain order; every
\* pair before the last one tried declined; a report is returned exactly when
\* the last pair tried accepted, it is that pair's report, and nothing is
\* tried after it; with no accepting pair all pairs were tried
C24_StdoutThenStderrFirstAccept ==
    \A c \in Callers :
        Failed(c) =>
            LET run == call[c].streams[1]
                tried == call[c].tried
                chain == MatcherChain(language, Requested(c))
                n == Len(tried)
            IN  /\ TriedFollows(c, chain)
                /\ n >= 1
                /\ \A i \in 1..(n - 1) : ~Accepts(run, tried[i])
                /\ (call[c].result.kind = "report") <=> Accepts(run, tried[n])
                /\ ~Accepts(run, tried[n]) => n = 2 * Len(chain)
                /\ call[c].result.kind = "report" =>
                      /\ call[c].result.sanitizer = tried[n].sanitizer
                      /\ call[c].result.content = StreamOf(run, tried[n].stream)

\* stdout holds a report that the second matcher of the chain accepts and
\* stderr one that the first accepts: the report of stdout is returned, and
\* stderr was never handed to a matcher
C24_Witness ==
    \E c \in Callers :
        /\ Failed(c)
        /\ language = "CLIKE"
        /\ call[c].streams[1].stdout = {"LibFuzzer"}
        /\ call[c].streams[1].stderr = {"AddressSanitizer"}
        /\ Requested(c) = "AddressSanitizer"
        /\ Len(call[c].tried) = 2
        /\ call[c].result.kind = "report"
        /\ call[c].result.sanitizer = "LibFuzzer"

\* C25: a next hypothesis is requested after a step only if the step's next
\* action was not quit and the step bound has not been reached, so that no run
\* makes more than 10 hypothesis requests, the initial one included
C25_NoRequestAtBound ==
    /\ dbg.pc = "d_llm" => (dbg.action # "quit" /\ dbg.step < max_steps)
    /\ dbg.llm <= max_steps
    /\ (LoopLeft /\ ~dbg.quitSeen) => dbg.llm = max_steps

\* the step of the tool run leaves the command phase of a loop step
LeavesCommands == dbg.pc = "d_cmds" /\ dbg'.pc # "d_cmds"

\* C26 (as stated): in a step whose next action is quit, all proposed commands
\* are run and recorded, and the quit action then goes through the filter to
\* the session and is recorded like any other next action before the loop ends
C26_QuitThroughFilter ==
    [][(LeavesCommands /\ dbg.action = "quit") =>
          /\ dbg.cmds = <<>>
          /\ dbg'.pc = "d_stop"
          /\ dbg'.hist = session_history_append(dbg.hist)
          /\ \E reply \in Replies : dbg'.s = run_command(dbg.s, "quit", reply).s
    ]_vars

\* C26 (amended): every proposed command of a step goes through the filter to
\* the session and is recorded, in order, before the next action is looked at;
\* if the next action is "quit" the loop is then left at once: the quit action
\* is not passed to the filter or the session and is not recorded; any other
\* next action is passed through the filter and recorded
C26_QuitBreaksUnfiltered ==
    [][ /\ (dbg.pc = "d_cmds" /\ dbg'.cmds # dbg.cmds) =>
             /\ dbg'.pc = "d_cmds"
             /\ dbg'.cmds = Tail(dbg.cmds)
             /\ dbg'.hist = session_history_append(dbg.hist)
             /\ \E reply \in Replies :
                   dbg'.s = run_command(dbg.s, Head(dbg.cmds), reply).s
        /\ LeavesCommands => dbg.cmds = <<>>
        /\ (LeavesCommands /\ dbg.action = "quit") =>
             /\ dbg'.pc = "d_stop"
             /\ dbg'.s = dbg.s
             /\ dbg'.hist = dbg.hist
             /\ dbg'.acts = dbg.acts
             /\ dbg'.polSent = dbg.polSent
             /\ dbg'.llm = dbg.llm
        /\ (LeavesCommands /\ dbg.action # "quit") =>
             /\ dbg'.pc = "d_llm"
             /\ dbg'.hist = session_history_append(dbg.hist)
             /\ dbg'.acts = dbg.acts + 1
             /\ \E reply \in Replies :
                   dbg'.s = run_command(dbg.s, ActionCmd(dbg.action), reply).s
    ]_vars

\* the first step proposed two commands and quit: both commands were sent and
\* recorded, the loop was left, and the child is still alive as no quit
\* reached the session
C26_Witness ==
    /\ dbg.pc = "d_stop"
    /\ dbg.action = "quit"
    /\ dbg.step = 1
    /\ dbg.hist = 2
    /\ dbg.acts = 0
    /\ dbg.polSent
    /\ dbg.s.child = "alive" /\ dbg.s.stops = 0

\* C27: no summarization call is made before the session was stopped; at most
\* two are made, the first on the sanitizer report, the second on the output
\* of the first together with the command/output history as it stands at the
\* end of the loop; a run that returns after the loop made both, returns the
\* output of the second and handed it to add_tool_call exactly once; no
\* other run adds a tool call
C27_StopThenTwoSummaries ==
    /\ dbg.sums # <<>> => (dbg.s.child = "none" /\ dbg.s.stops >= 1)
    /\ Len(dbg.sums) <= 2
    /\ dbg.pc = "d_sum1" => dbg.sums = <<>>
    /\ dbg.pc = "d_sum2" => Len(dbg.sums) = 1
    /\ Len(dbg.sums) >= 1 =>
          dbg.sums[1] = [prompt |-> "STACK_TRACE_SUMMARY_PROMPT",
                         stack_trace |-> "task.report.summary"]
    /\ Len(dbg.sums) = 2 =>
          dbg.sums[2] = [prompt |-> "DEBUGGER_OUTPUT_SUMMARY_PROMPT",
                         stack_trace |-> SummaryOf(dbg.sums[1]),
                         gdb_session |-> dbg.hist]
    /\ IF dbg.pc = "returned" /\ dbg.result = "summary"
       THEN /\ Len(dbg.sums) = 2
            /\ dbg.value = SummaryOf(dbg.sums[2])
            /\ dbg.toolcalls = <<dbg.value>>
       ELSE dbg.toolcalls = <<>> /\ dbg.value = <<>>

\* a run of two steps or more has returned its summary: the second prompt
\* held the recorded history and the result was added as one tool call
C27_Witness ==
    /\ dbg.pc = "returned" /\ dbg.result = "summary"
    /\ dbg.step >= 2
    /\ dbg.hist >= 2
    /\ dbg.sums[2].gdb_session = dbg.hist
    /\ Len(dbg.toolcalls) = 1
    /\ dbg.s.stops = 1

\* C28: the tool starts the session, then calls set_source_map, then asks the
\* policy: a command or next action of the policy is sent to the child only
\* after the source-map directive was sent to it; the policy is not asked, and
\* no step is begun, before set_source_map was called on the started session
C28_SourceMapBeforeCommands ==
    /\ dbg.polSent => dbg.mapped = "sent"
    /\ dbg.mapped = "no" =>
          (dbg.llm = 0 /\ dbg.step = 0 /\ dbg.hist = 0 /\ dbg.pc \in {"d_start", "d_map", "returned"})
    /\ dbg.mapped # "no" => dbg.s.debugger # "none"
    /\ dbg.pc = "d_map" => dbg.s.debugger # "none"
    /\ dbg.pc \in {"d_llm0", "d_loop", "d_cmds", "d_llm"} => dbg.mapped # "no"

\* the session was started with arguments, the source-map directive was
\* sent, and a command of the policy has reached the child
C28_Witness ==
    /\ dbg.hasArgs
    /\ dbg.mapped = "sent"
    /\ dbg.polSent
    /\ dbg.step = 1
    /\ dbg.pc = "d_cmds"

\* the call of thread c takes a step from pc `from` to somewhere else
StepsFrom(c, from) == call[c].pc = from /\ call'[c] # call[c]

\* the step of c ends _build_image with the image under its canonical name
Acquired(c) == call'[c].pc = "b_build" /\ "image" \in ws'[call[c].key].stages

\* the registry path of image acquisition: with a registry the mirror image is
\* pulled unless it is local already, then re-tagged; without one the local
\* build is entered directly; a failed pull falls back to the local build
RegistryFirst(c) ==
    /\ StepsFrom(c, "i_entry") =>
          call'[c].pc = IF ~docker_registry THEN "i_local"
                        ELSE IF docker THEN "i_tag" ELSE "i_pull"
    /\ StepsFrom(c, "i_pull") =>
          /\ docker_registry
          /\ call'[c].pc = IF docker' THEN "i_tag" ELSE "i_local"
    /\ call[c].pc = "i_tag" => docker_registry

\* C29 (as stated): the registry path comes first, and whenever it fails, at
\* the pull or at the re-tag, the local image build is entered
C29_FallbackOnAnyRegistryFailure ==
    [][\A c \in Callers :
         /\ RegistryFirst(c)
         /\ StepsFrom(c, "i_tag") => (Acquired(c) \/ call'[c].pc = "i_local")
    ]_vars

\* C29 (amended): the registry path comes first and a failed pull falls back
\* to the local image build; a failed re-tag does not: it raises
\* DockerUnavailableError out of _build at once, and no local build is tried
C29_FallbackOnPullFailureOnly ==
    [][\A c \in Callers :
         /\ RegistryFirst(c)
         /\ StepsFrom(c, "i_tag") =>
               \/ Acquired(c)
               \/ /\ call'[c].pc = "done"
                  /\ call'[c].result = Raise("DockerUnavailableError")
                  /\ call'[c].at = "i_tag"
                  /\ ws' = ws
         /\ (call[c].pc # "i_local" /\ call'[c].pc = "i_local") =>
               \/ call[c].pc = "i_entry" /\ ~docker_registry
               \/ call[c].pc = "i_pull" /\ ~docker'
    ]_vars

\* with a registry, the mirror image was there but the re-tag failed: the
\* build call ended with DockerUnavailableError without a local image build
C29_Witness ==
    \E c \in Callers :
        /\ docker_registry /\ docker
        /\ call[c].pc = "done"
        /\ call[c].at = "i_tag"
        /\ call[c].result = Raise("DockerUnavailableError")
        /\ "image" \notin ws[call[c].key].stages

\* C30: the local image build starts an invocation only while fewer than 3
\* have failed; an invocation that exits with 0 ends it at once; a failed one
\* is followed by another unless it was the third, and then, and only then,
\* DockerUnavailableError is raised
C30_LocalBuildThreeTries ==
    /\ [](\A c \in Callers : call[c].tries < ImageTries)
    /\ [][\A c \in Callers :
           StepsFrom(c, "i_local") =>
               \/ Acquired(c) /\ call'[c].tries = 0
               \/ /\ call'[c].pc = "i_local"
                  /\ call'[c].tries = call[c].tries + 1
                  /\ call'[c].tries < ImageTries
                  /\ ws' = ws
               \/ /\ call[c].tries = ImageTries - 1
                  /\ call'[c].pc = "done"
                  /\ call'[c].at = "i_local"
                  /\ call'[c].result = Raise("DockerUnavailableError")
                  /\ ws' = ws
       ]_vars

\* two invocations of the local image build have failed and the third, the
\* last one, is about to run
C30_Witness ==
    \E c \in Callers :
        /\ call[c].pc = "i_local"
        /\ call[c].tries = ImageTries - 1
        /\ "image" \notin ws[call[c].key].stages


\* the position of a pc of _build in the order of its stages: 1 workspace
\* reset, 2 source copy, 3 tooling copy, 4 patch pass 1, 5 patch pass 2,
\* 6 image acquisition, 7 build, 8 check, 9 marker write
StageRank(pc) ==
    CASE pc = "b_reset" -> 1
      [] pc \in {"b_immsrc", "b_cpsrc"} -> 2
      [] pc \in {"b_immtool", "b_cptool"} -> 3
      [] pc = "b_patch1" -> 4
      [] pc = "b_patch2" -> 5
      [] pc \in {"i_entry", "i_pull", "i_tag", "i_local"} -> 6
      [] pc = "b_build" -> 7
      [] pc = "b_check" -> 8
      [] pc = "b_marker" -> 9

\* the stage whose result is in the workspace when the stage of rank r is done
StageOfRank(r) ==
    CASE r = 2 -> "source" [] r = 3 -> "tooling" [] r = 4 -> "patch1"
      [] r = 5 -> "patch2" [] r = 6 -> "image" [] r = 7 -> "build" [] r = 8 -> "check"

\* the step of c leaves _build by an exception raised at the pc it was at
FailsAt(c) ==
    /\ call'[c].pc = "done"
    /\ call'[c].result.kind = "raise"
    /\ call'[c].at = call[c].pc

\* C31: an uncached build goes through its stages in the order reset, source
\* copy, tooling copy, patch pass 1, patch pass 2, image acquisition, build,
\* check, marker write: every step of it stays in its stage or moves to the
\* next one, having put the result of the stage in the workspace, or raises;
\* a stage that raises ends the call with the workspace as the earlier stages
\* left it and without marker; the marker is written only as the last step,
\* over the results of all stages, and holds exactly the patch of the call.
C31_StagesInOrder ==
    /\ [](\A c \in Callers :
            /\ call[c].pc \in BuildPcs \ {"b_reset"} =>
                  /\ ws[call[c].key].stages = StagesBefore(call[c].pc)
                  /\ ~HasMarker(call[c].key)
            /\ (call[c].pc = "done" /\ call[c].result.kind = "raise"
                   /\ call[c].at \in BuildPcs) =>
                  /\ ws[call[c].key].stages = StagesBefore(call[c].at)
                  /\ ~HasMarker(call[c].key))
    /\ [][\A c \in Callers :
           (call[c].pc \in BuildPcs /\ call'[c] # call[c]) =>
              LET r == StageRank(call[c].pc)
                  k == call[c].key
              IN  \/ /\ call'[c].pc \in BuildPcs
                     /\ StageRank(call'[c].pc) \in {r, r + 1}
                     /\ call'[c].key = k
                     /\ ws'[k].marker = <<>>
                     /\ (StageRank(call'[c].pc) = r + 1 /\ r > 1) =>
                            ws'[k].stages = ws[k].stages \cup {StageOfRank(r)}
                     /\ StageRank(call'[c].pc) = r => ws' = ws
                  \/ /\ FailsAt(c)
                     /\ r < 9
                     /\ ws' = ws
                  \/ /\ r = 9
                     /\ call'[c].pc \notin BuildPcs
                     /\ call'[c].result.kind # "raise"
                     /\ ws[k].stages = StageSet
                     /\ ws'[k].stages = StageSet
                     /\ Len(ws'[k].marker) = 1
                     /\ ws'[k].marker[1].text = call[c].patch
      ]_vars

\* C31 witness: the second call of a behaviour is a build call that has gone
\* through all stages of an uncached build and returned, and the marker it
\* wrote holds its patch
C31_Witness ==
    \E c \in Callers :
        /\ call[c].pc = "done"
        /\ call[c].op = "build"
        /\ call[c].result = ReturnNone
        /\ ~call[c].entryCached
        /\ nOps = 2
        /\ ws[call[c].key].stages = StageSet
        /\ ws[call[c].key].marker = << [text |-> call[c].patch, mtime |-> nOps] >>


\* a line that starts with the binary-output path followed by arguments
IsCommandLine(line) == BinaryAtStart(line) /\ Len(line.tokens) > 1

\* the first such line of a log (0 if it has none)
FirstCommandLine(content) ==
    LET S == {i \in 1..Len(content.lines) : IsCommandLine(content.lines[i])}
    IN  IF S = {} THEN 0 ELSE CHOOSE i \in S : \A m \in S : i <= m

\* libFuzzer's resource limits: -rss_limit_mb and -malloc_limit_mb
ResourceLimitFlag(token) ==
    \/ startswith(token, <<"-", "rss_limit_mb=">>)
    \/ startswith(token, <<"-", "malloc_limit_mb=">>)

\* the flags the claim lists as stripped
StrippedFlag(token) ==
    \E name \in {"timeout=", "dict=", "runs=", "jobs=", "workers=", "conf="} :
        startswith(token, <<"-", name>>)

\* C32 (as stated): for a log with a line that starts with the binary path
\* followed by arguments, the command extracted starts with the binary path
\* of that line, holds no timeout, dictionary, run-count, job/worker-count or
\* config flag, holds every resource-limit flag of the line as often as the
\* line does, and ends with /testcase if the line holds /testcase.
C32_CommandKeepsLimitsDropsRest ==
    (dbg.pc = "ex_done" /\ FirstCommandLine(dbg.content) # 0) =>
        LET line == dbg.content.lines[FirstCommandLine(dbg.content)].tokens
            cmd == IF dbg.run_command = <<>> THEN <<>> ELSE dbg.run_command[4]
        IN  /\ cmd # <<>>
            /\ cmd[1] = line[1]
            /\ \A n \in 1..Len(cmd) : ~StrippedFlag(cmd[n])
            /\ SelectSeq(cmd, ResourceLimitFlag) = SelectSeq(line, ResourceLimitFlag)
            /\ (\E n \in 1..Len(line) : line[n] = <<"/testcase">>) =>
                   cmd[Len(cmd)] = <<"/testcase">>

\* C33 (as stated): for a log with no line that starts with the binary path
\* followed by at least one argument the extraction returns the empty string
\* (so that no prefix is put in front of the purified content).
C33_EmptyWithoutCommandLine ==
    (dbg.pc = "ex_done" /\ FirstCommandLine(dbg.content) = 0) => dbg.run_command = <<>>


\* C34: when the tool resolves its arguments, a program whose string begins
\* with "/out" has that leading "/out", and nothing else, replaced by the
\* build-output directory of the unpatched build, any other program is left
\* as it is; an argument equal to /testcase becomes the path of the first
\* proof of concept if there is one, and every other argument is unchanged.
C34_ProgramAndArgsResolved ==
    (dbg.pc = "rs_done" /\ dbg.result = ReturnNone) =>
       /\ dbg.develop_program =
             IF dbg.program[1] = "/out"
             THEN <<out_root_map[2]>> \o Tail(dbg.program)
             ELSE dbg.program
       /\ Len(dbg.develop_args) = Len(dbg.args)
       /\ \A i \in 1..Len(dbg.args) :
             dbg.develop_args[i] =
                IF dbg.args[i] = <<"/testcase">> /\ dbg.pocs # <<>>
                THEN <<dbg.pocs[1]>>
                ELSE dbg.args[i]

\* C34 witness: /out/out/fuzzer was resolved together with /testcase and
\* another argument, with two proofs of concept
C34_Witness ==
    /\ dbg.pc = "rs_done"
    /\ dbg.result = ReturnNone
    /\ dbg.program = <<"/out", "/out", "/fuzzer">>
    /\ dbg.develop_program = <<out_root_map[2], "/out", "/fuzzer">>
    /\ Len(dbg.pocs) = 2
    /\ dbg.args = <<<<"-v">>, <<"/testcase">>>>
    /\ dbg.develop_args = <<<<"-v">>, <<"/tmp/poc">>>>


\* the step is one of an uncached build of thread c, and leaves the workspaces
\* of all other keys as they are
OtherKeysUntouched(c) ==
    \A k \in Workspaces \ {call[c].key} : ws'[k] = ws[k]

\* C35 (as stated): no step of an uncached build changes the workspace or the
\* marker of another key, or the shared immutable source and tooling copies.
C35_WritesOnlyOwnWorkspace ==
    [][\A c \in Callers :
         call[c].pc \in BuildPcs => (OtherKeysUntouched(c) /\ immutable' = immutable)
    ]_vars

\* C35 (amended): no step of an uncached build changes the workspace or the
\* marker of another key; a shared immutable copy that is on disk is left as
\* it is, but one that is absent is created by the build, at the evaluation
\* of source_path / fuzz_tooling_path before the respective cp, and a copy
\* that fails there raises and may leave a partial directory behind.
C35_OwnWorkspaceAndLazyCopies ==
    [][\A c \in Callers :
         call[c].pc \in BuildPcs =>
            /\ OtherKeysUntouched(c)
            /\ \A w \in {"source", "tooling"} :
                  \/ immutable'[w] = immutable[w]
                  \/ /\ immutable[w] = "absent"
                     /\ call[c].pc = (IF w = "source" THEN "b_immsrc" ELSE "b_immtool")
                     /\ \/ immutable'[w] = "full" /\ call'[c].pc \in BuildPcs
                        \/ immutable'[w] = "partial" /\ FailsAt(c)
    ]_vars

\* C35 witness: an uncached build has failed after its copies while another
\* key holds a finished build, with both immutable copies on disk
C35_Witness ==
    \E c \in Callers :
      /\ call[c].pc = "done"
      /\ call[c].result.kind = "raise"
      /\ call[c].at \in {"b_patch1", "b_patch2", "b_build", "b_check"}
      /\ \E k \in Workspaces \ {call[c].key} : HasMarker(k) /\ ws[k].stages = StageSet
      /\ immutable = [w \in {"source", "tooling"} |-> "full"]


\* the texts start returns when it did not get a debugger to its prompt
StartFailureTexts == {"No debugger available", "Failed to start"}

\* C36 (as stated): after a start that returned the success text the session
\* is running, with a live child; after a start that returned a failure text
\* the session has no live child.
C36_StartTextTellsState ==
    dbg.op.name = "start" =>
       /\ dbg.op.out \in StartedTexts => Running(dbg.s)
       /\ dbg.op.out \in StartFailureTexts => ~Running(dbg.s)


\* the positions of the tool inside the diagnosis loop
LoopPcs == {"d_loop", "d_cmds", "d_llm"}

\* C37: once the session has been stopped (no child) while the tool is in its
\* loop, it stays stopped to the end of the loop; every command of any kind
\* given to it there returns the not-running text, sends nothing and leaves
\* the session as it is; each command and next action run is appended to the
\* history all the same; and the loop goes on: after the commands the next
\* action is run and the next hypothesis requested, unless the action is
\* quit, until the step bound (or until the policy call or the reading of
\* its answer raises).
C37_StoppedSessionRefusesCommands ==
    /\ [](dbg.pc \in LoopPcs /\ Stopped(dbg.s) =>
            \A cmd \in CmdKinds, reply \in Replies :
               run_command(dbg.s, cmd, reply) =
                  [s |-> dbg.s, out |-> "Debugger is not running. Please start it first.",
                   sent |-> FALSE])
    /\ [][(dbg.pc \in LoopPcs /\ Stopped(dbg.s)) =>
            /\ dbg'.s = dbg.s \/ dbg'.pc = "d_stop" \/ dbg'.pc = "raised"
            /\ dbg'.pc \in LoopPcs => dbg'.s = dbg.s
            /\ dbg'.polSent = dbg.polSent
            /\ (dbg.pc = "d_cmds" /\ dbg.cmds # <<>>) =>
                  /\ dbg'.refused
                  /\ dbg'.hist = session_history_append(dbg.hist)
                  /\ dbg'.pc = "d_cmds" /\ dbg'.cmds = Tail(dbg.cmds)
            /\ (dbg.pc = "d_cmds" /\ dbg.cmds = <<>> /\ dbg.action # "quit") =>
                  /\ dbg'.refused
                  /\ dbg'.hist = session_history_append(dbg.hist)
                  /\ dbg'.pc = "d_llm"
            /\ (dbg.pc = "d_cmds" /\ dbg.cmds = <<>> /\ dbg.action = "quit") =>
                  dbg'.pc = "d_stop" /\ dbg'.hist = dbg.hist
            /\ dbg.pc = "d_llm" => dbg'.pc \in {"d_loop", "raised"} /\ dbg'.llm = dbg.llm + 1
            /\ dbg.pc = "d_loop" =>
                  dbg'.pc = (IF dbg.step >= max_steps THEN "d_stop"
                             ELSE IF dbg.parsed = "other" THEN "raised" ELSE "d_cmds")
      ]_vars

\* C37 witness: in a loop in which a command had reached the debugger the
\* session was stopped, a later next action got the not-running text, and the
\* tool is about to request the next hypothesis
C37_Witness ==
    /\ dbg.pc = "d_llm"
    /\ dbg.polSent
    /\ Stopped(dbg.s)
    /\ dbg.s.stops = 1
    /\ dbg.refused
    /\ dbg.step = 2
    /\ dbg.hist >= 2


\* C38 (as stated): an answer of the policy that does not parse to a strategy
\* object is taken as the strategy without commands and with next action
\* quit: the step that takes it up runs no command and leaves the loop for
\* session.stop() and the summaries; it never ends the tool by an exception.
C38_UnparsedAnswerQuits ==
    [][(dbg.pc = "d_loop" /\ dbg.parsed # "object" /\ dbg.step < max_steps) =>
          /\ dbg'.pc = "d_cmds"
          /\ dbg'.cmds = <<>>
          /\ dbg'.action = "quit"
      ]_vars


\* the positions of a _replay call after its _build returned
ReplayPcs == {"r_assert", "r_immtool", "r_reproduce"}

\* C39: in calls made one after the other, a _replay call is past its _build
\* only while the marker of its key exists over a completely built workspace,
\* so the reproduction subprocess starts in such a state; the assertion on
\* the marker never fails (an AssertionError comes from the PoC-file assertion
\* only); and a _replay whose _build raised has attempted no reproduction:
\* the reproductions of the call are those of the earlier sanitizers.
C39_ReproduceOnlyWithMarker ==
    \A c \in Callers :
      /\ call[c].pc \in ReplayPcs =>
            /\ call[c].op = "replay"
            /\ HasMarker(call[c].key)
            /\ ws[call[c].key].stages = StageSet
            /\ call[c].key = hash_patch(CurSan(c), call[c].patch)
            /\ Len(call[c].exits) = call[c].idx - 1
      /\ (call[c].pc = "done" /\ call[c].result = Raise("AssertionError")) =>
            /\ ~call[c].poc
            /\ call[c].at = "r_assert"
            /\ Len(call[c].exits) = call[c].idx - 1
      /\ (call[c].pc = "done" /\ call[c].op = "replay" /\ call[c].result.kind = "raise"
            /\ call[c].at \in BuildPcs \cup {"b_entry"}) =>
            /\ Len(call[c].exits) = call[c].idx - 1
            /\ call[c].at \in BuildPcs => ~HasMarker(call[c].key)
      /\ Len(call[c].exits) <= call[c].idx

\* C39 witness: a replay call that built its key itself is about to start the
\* reproduction subprocess, the marker written by its own build in place
C39_Witness ==
    \E c \in Callers :
      /\ call[c].op = "replay"
      /\ call[c].pc = "r_reproduce"
      /\ ~call[c].entryCached
      /\ call[c].exits = <<>>
      /\ ws[call[c].key].marker = << [text |-> call[c].patch, mtime |-> nOps] >>

====
